---- MODULE Spec2Model ----
(***************************************************************************)
(* The goo pipeline: an AST is compiled to a byte stream                   *)
(* (compiler/compiler.go), the byte stream is decoded into instructions    *)
(* and an offset map (convertBytecode), and the instructions are run by    *)
(* the stack machine of vm/vm.go.                                          *)
(***************************************************************************)
EXTENDS Integers, Sequences, FiniteSets, TLC

(***************************************************************************)
(* Opcodes (compiler.go, const block).  IF and ELSE are reserved words of  *)
(* TLA+, so these two carry the prefix OP_.                                *)
(***************************************************************************)
ADD == 0
SUB == 1
MUL == 2
DIV == 3
GRT == 4
LESS == 5
EQ == 6
NEQ == 7
PUSH_VARIABLE == 28
PUSH_NUMBER == 29
PUSH_BOOL == 30
PUSH_STRING == 31
DEFINE_VARIABLE == 32
DEFINE_FUNCTION == 33
CREATE_LAMBDA == 34
CALL_LAMBDA == 35
OP_IF == 46
OP_ELSE == 47
ENDIF == 48
PRINT == 49
RETURN == 50
JUMP == 51
CALL_FUNCTION == 52
MAP == 63
\* vm.go dispatches on compiler.FILTER, but the compiler source at hand
\* declares no such opcode: the value continues the iota run after MAP.
FILTER == 64

(***************************************************************************)
(* Bytes.  Identifiers are TLA+ strings; Utf8 gives the bytes []byte(name) *)
(* writes and BytesToString is string(bytes).                              *)
(***************************************************************************)
Names == {"x", "y", "z", "f", "g", "double", "factorial", "add"}
Utf8 == [s \in Names |->
           CASE s = "x" -> <<120>>
             [] s = "y" -> <<121>>
             [] s = "z" -> <<122>>
             [] s = "f" -> <<102>>
             [] s = "g" -> <<103>>
             [] s = "double" -> <<100, 111, 117, 98, 108, 101>>
             [] s = "factorial" -> <<102, 97, 99, 116, 111, 114, 105, 97, 108>>
             [] s = "add" -> <<97, 100, 100>>]
BytesToString(b) == CHOOSE s \in Names : Utf8[s] = b

Pow2(e) == 2 ^ e
SubSeqFrom(s, i) == SubSeq(s, i, Len(s))

\* binary.LittleEndian.PutUint32
PutUint32(v) == <<v % 256, (v \div 256) % 256, (v \div 65536) % 256, (v \div 16777216) % 256>>
\* binary.LittleEndian.Uint32; values from 2^31 on saturate (they only arise
\* as lengths far beyond any byte stream)
MaxInt32 == 2147483647
Uint32(b) == IF b[4] >= 128 THEN MaxInt32
             ELSE b[1] + 256 * b[2] + 65536 * b[3] + 16777216 * b[4]

\* math.Float64bits of an integer-valued float64 with |v| < 4096, little
\* endian: sign bit, 11 exponent bits, the top 12 mantissa bits; the 40 low
\* mantissa bits of such a value are zero.
Float64bits(v) ==
  IF v = 0 THEN <<0, 0, 0, 0, 0, 0, 0, 0>>
  ELSE LET a == IF v < 0 THEN 0 - v ELSE v
           e == CHOOSE k \in 0..11 : Pow2(k) <= a /\ a < Pow2(k + 1)
           m12 == (a - Pow2(e)) * Pow2(12 - e)
           ex == e + 1023
           sgn == IF v < 0 THEN 128 ELSE 0
       IN <<0, 0, 0, 0, 0, m12 % 256, (ex % 16) * 16 + (m12 \div 256), sgn + (ex \div 16)>>
\* math.Float64frombits on such bytes
Float64frombits(b) ==
  LET ex == (b[8] % 128) * 16 + (b[7] \div 16)
      m12 == (b[7] % 16) * 256 + b[6]
      e == ex - 1023
      a == IF ex = 0 THEN 0 ELSE ((4096 + m12) * Pow2(e)) \div 4096
  IN IF b[8] >= 128 THEN 0 - a ELSE a

(***************************************************************************)
(* AST nodes (parser package).  A node is a record whose field k names its *)
(* Go type; []interface{} is a List node.                                  *)
(***************************************************************************)
Nil == [k |-> "nil"]
Number(v) == [k |-> "Number", Value |-> v]
Boolean(v) == [k |-> "Boolean", Value |-> v]
\* a string literal keeps its bytes, quotes included
String(bytes) == [k |-> "String", Value |-> bytes]
Identifier(v) == [k |-> "Identifier", Value |-> v]
Operator(v) == [k |-> "Operator", Value |-> v]
List(items) == [k |-> "List", Items |-> items]
TypeAnnotation(v) == [k |-> "TypeAnnotation", Variable |-> v, Type |-> "int"]
IfStatement(c, t, e) == [k |-> "IfStatement", Condition |-> c, ThenBlock |-> t, ElseBlock |-> e]
FunctionDefinition(name, params, body) ==
  [k |-> "FunctionDefinition", Name |-> name, Params |-> params, Body |-> body]
ReturnStatement(v) == [k |-> "ReturnStatement", ReturnValue |-> v]
LambdaExpression(params, body) == [k |-> "LambdaExpression", Params |-> params, Body |-> body]
LambdaCall(l, args) == [k |-> "LambdaCall", Lambda |-> l, Arguments |-> args]
MapExpression(l, args) == [k |-> "MapExpression", Lambda |-> l, Arguments |-> args]
FilterExpression(l, args) == [k |-> "FilterExpression", Lambda |-> l, Arguments |-> args]

(***************************************************************************)
(* Compiler (compiler/compiler.go).  The compiler state c holds the byte   *)
(* stream, the chain of symbol tables (innermost last; Parent of a table   *)
(* is the one before it), the current function and the error, if any.      *)
(* perm stands for the iteration order of the Go map that                  *)
(* determineCapturedVariables ranges over.                                 *)
(***************************************************************************)
EmptyMap == [n \in {} |-> Nil]
NewSymbolTable(parent) == Append(parent, EmptyMap)
Symbol(name, type, paramNames, startAddress) ==
  [Name |-> name, Type |-> type, ParamNames |-> paramNames, StartAddress |-> startAddress]
DefineSymbol(st, name, symbolType) ==
  [st EXCEPT ![Len(st)] = (name :> Symbol(name, symbolType, <<>>, 0)) @@ @]
DefineVariable(st, name) == DefineSymbol(st, name, "VariableSymbol")
DefineFunction(st, name, startAddress, paramNames) ==
  [st EXCEPT ![Len(st)] = (name :> Symbol(name, "FunctionSymbol", paramNames, startAddress)) @@ @]
RECURSIVE Resolve(_, _)
\* a lookup that starts at the root of the chain
Resolve_outermost(st, name) ==
  IF \E i \in 1..Len(st) : name \in DOMAIN st[i]
  THEN [ok |-> TRUE,
        symbol |-> st[CHOOSE i \in 1..Len(st) :
                        name \in DOMAIN st[i] /\ \A j \in 1..(i - 1) : name \notin DOMAIN st[j]][name]]
  ELSE [ok |-> FALSE, symbol |-> Nil]
Resolve(st, name) ==
  IF Len(st) = 0 THEN [ok |-> FALSE, symbol |-> Nil]
  ELSE IF name \in DOMAIN st[Len(st)] THEN [ok |-> TRUE, symbol |-> st[Len(st)][name]]
  ELSE Resolve(SubSeq(st, 1, Len(st) - 1), name)

NewCompiler(perm) ==
  [bytecode |-> <<>>, symbolTable |-> NewSymbolTable(<<>>), currentFunction |-> "",
   err |-> "", perm |-> perm, emitted |-> <<>>, lambdas |-> <<>>]
setCurrentFunction(c, functionName) == [c EXCEPT !.currentFunction = functionName]
enterScope(c) == [c EXCEPT !.symbolTable = NewSymbolTable(@)]
\* a scope that is never left
leaveScope_stays(c) == c
leaveScope(c) == [c EXCEPT !.symbolTable = SubSeq(@, 1, Len(@) - 1)]
Errorf(c, msg) == [c EXCEPT !.err = msg]

\* operands of emit, tagged with their Go type
OpInt(v) == [ty |-> "int", v |-> v]
OpFloat64(v) == [ty |-> "float64", v |-> v]
OpString(v) == [ty |-> "string", v |-> v]
OpBool(v) == [ty |-> "bool", v |-> v]
OpStrings(v) == [ty |-> "[]string", v |-> v]
\* a string operand is given by its bytes []byte(v); the names of a
\* []string are turned into bytes here
RECURSIVE serializeStrings(_)
serializeStrings(v) ==
  IF v = <<>> THEN <<>>
  ELSE PutUint32(Len(Utf8[Head(v)])) \o Utf8[Head(v)] \o serializeStrings(Tail(v))
serializeOperand(o) ==
  CASE o.ty = "int" -> PutUint32(o.v)
    [] o.ty = "float64" -> Float64bits(o.v)
    [] o.ty = "string" -> PutUint32(Len(o.v)) \o o.v
    [] o.ty = "bool" -> IF o.v THEN <<1>> ELSE <<0>>
    [] o.ty = "[]string" -> PutUint32(Len(o.v)) \o serializeStrings(o.v)
RECURSIVE serializeOperands(_)
serializeOperands(operands) ==
  IF operands = <<>> THEN <<>>
  ELSE serializeOperand(Head(operands)) \o serializeOperands(Tail(operands))
emit(c, opcode, operands) ==
  [c EXCEPT !.bytecode = @ \o <<opcode>> \o serializeOperands(operands),
            !.emitted = Append(@, Len(c.bytecode))]

\* calculateCorrectedOffset: the loop over the whole byte stream, i 0-based
RECURSIVE correctedOffsetLoop(_, _, _, _)
correctedOffsetLoop(bytecode, targetOffset, i, instructionCount) ==
  IF ~(i < Len(bytecode) /\ instructionCount < targetOffset) THEN instructionCount
  ELSE LET opcode == bytecode[i + 1]
           j == i + 1
           next ==
             CASE opcode = PUSH_NUMBER -> j + 8
               [] opcode \in {PUSH_STRING, PUSH_VARIABLE, DEFINE_VARIABLE, CALL_FUNCTION} ->
                    IF j + 4 > Len(bytecode) THEN j
                    ELSE LET operandLength == Uint32(SubSeq(bytecode, j + 1, j + 4))
                         IN IF operandLength > Len(bytecode) THEN Len(bytecode)
                            ELSE j + 4 + operandLength
               [] opcode = PUSH_BOOL -> j + 1
               [] opcode = JUMP -> j + 4
               [] OTHER -> j
       IN correctedOffsetLoop(bytecode, targetOffset, next, instructionCount + 1)
calculateCorrectedOffset(bytecode, targetOffset) ==
  correctedOffsetLoop(bytecode, targetOffset, 0, 0)
\* copy(bytecode[jumpIndex+1:], offsetBytes)
updateJumpInstruction(bytecode, jumpIndex, correctedOffset) ==
  [p \in 1..Len(bytecode) |->
     IF p - 1 \in (jumpIndex + 1)..(jumpIndex + 4)
     THEN PutUint32(correctedOffset)[p - 1 - jumpIndex]
     ELSE bytecode[p]]

\* strings.Trim(v, "'") on the bytes of a literal
RECURSIVE Trim(_)
Trim(b) ==
  IF b # <<>> /\ Head(b) = 39 THEN Trim(Tail(b))
  ELSE IF b # <<>> /\ b[Len(b)] = 39 THEN Trim(SubSeq(b, 1, Len(b) - 1))
  ELSE b

\* determineCapturedVariables: visitNode descends into Identifier and
\* []interface{} nodes only; the names come out in the order of the Go map
RECURSIVE visitNode(_, _, _)
visitNode(c, paramNames, n) ==
  IF n.k = "Identifier"
  THEN LET r == Resolve(c.symbolTable, n.Value)
       IN IF r.ok /\ r.symbol.Type = "VariableSymbol" /\ n.Value \notin paramNames
          THEN {n.Value} ELSE {}
  ELSE IF n.k = "List"
  THEN UNION {visitNode(c, paramNames, n.Items[i]) : i \in 1..Len(n.Items)}
  ELSE {}
RECURSIVE MapOrder(_, _)
MapOrder(S, perm) ==
  IF S = {} THEN <<>>
  ELSE LET NameRank(s) ==
             CASE s = "x" -> 1 [] s = "y" -> 2 [] s = "z" -> 3 [] s = "f" -> 4 [] s = "g" -> 5
               [] s = "double" -> 6 [] s = "factorial" -> 7 [] s = "add" -> 8
           first == IF perm = 1
                    THEN CHOOSE s \in S : \A t \in S : NameRank(s) <= NameRank(t)
                    ELSE CHOOSE s \in S : \A t \in S : NameRank(s) >= NameRank(t)
       IN <<first>> \o MapOrder(S \ {first}, perm)
determineCapturedVariables(c, lambdaBody, lambdaParams) ==
  LET paramNames == {lambdaParams[i].Variable : i \in 1..Len(lambdaParams)}
      captured == UNION {visitNode(c, paramNames, lambdaBody[i]) : i \in 1..Len(lambdaBody)}
  IN MapOrder(captured, c.perm)

RECURSIVE DefineVariables(_, _)
DefineVariables(st, names) ==
  IF names = <<>> THEN st ELSE DefineVariables(DefineVariable(st, Head(names)), Tail(names))
endsInReturn(body) == Len(body) > 0 /\ body[Len(body)].k = "ReturnStatement"

RECURSIVE compileNode(_, _)
RECURSIVE compileNodes(_, _)
\* a range loop over nodes that returns at the first error
compileNodes(c, nodes) ==
  IF nodes = <<>> THEN c
  ELSE LET c1 == compileNode(c, Head(nodes))
       IN IF c1.err # "" THEN c1 ELSE compileNodes(c1, Tail(nodes))

\* compileNode, case []interface{} with a TypeAnnotation at the head
compileLet(c, n) ==
  IF Len(n) # 2 THEN Errorf(c, "let expects two arguments")
  ELSE LET c1 == compileNode(c, n[2])
       IN IF c1.err # "" THEN c1
          ELSE emit([c1 EXCEPT !.symbolTable = DefineVariable(@, n[1].Variable)],
                    DEFINE_VARIABLE, <<OpString(Utf8[n[1].Variable])>>)
\* compileNode, case []interface{} with the identifier def at the head
compileDefList(c, n) ==
  IF Len(n) < 3 THEN Errorf(c, "function definition syntax error")
  ELSE IF n[2].k # "Identifier" THEN Errorf(c, "function name must be an identifier")
  ELSE IF n[3].k # "List" THEN Errorf(c, "function parameters must be in a list")
  ELSE IF \E i \in 1..Len(n[3].Items) : n[3].Items[i].k # "Identifier"
       THEN Errorf(c, "invalid parameter name in function definition")
  ELSE LET paramNames == [i \in 1..Len(n[3].Items) |-> n[3].Items[i].Value]
           c1 == compileNode(c, List(SubSeqFrom(n, 4)))
       IN IF c1.err # "" THEN c1
          ELSE emit(c1, DEFINE_FUNCTION, <<OpString(Utf8[n[2].Value]), OpStrings(paramNames)>>)
\* compileNode, case []interface{} with the identifier print at the head
compilePrint(c, n) ==
  IF Len(n) # 2 THEN Errorf(c, "print expects one argument")
  ELSE LET c1 == compileNode(c, n[2])
       IN IF c1.err # "" THEN c1 ELSE emit(c1, PRINT, <<>>)
\* compileNode, case []interface{}
compileList(c, n) ==
  IF Len(n) = 0 THEN Errorf(c, "empty expression")
  ELSE IF n[1].k = "TypeAnnotation" THEN compileLet(c, n)
  ELSE IF n[1].k = "Identifier" /\ n[1].Value = "def" THEN compileDefList(c, n)
  ELSE IF n[1].k = "Identifier" /\ n[1].Value = "print" THEN compilePrint(c, n)
  ELSE IF /\ n[1].k = "Identifier"
          /\ Resolve(c.symbolTable, n[1].Value).ok
          /\ Resolve(c.symbolTable, n[1].Value).symbol.Type = "FunctionSymbol"
       THEN LET c1 == compileNodes(c, Tail(n))
            IN IF c1.err # "" THEN c1
               ELSE emit(c1, CALL_FUNCTION, <<OpString(Utf8[n[1].Value])>>)
  ELSE IF n[1].k = "Operator"
       THEN LET c1 == compileNodes(c, Tail(n))
            IN IF c1.err # "" THEN c1 ELSE compileNode(c1, n[1])
  ELSE compileNodes(c, n)
\* compileNode, case parser.Operator
compileOperator(c, n) ==
  CASE n.Value = "+" -> emit(c, ADD, <<>>)
    [] n.Value = "-" -> emit(c, SUB, <<>>)
    [] n.Value = "*" -> emit(c, MUL, <<>>)
    [] n.Value = ">" -> emit(c, GRT, <<>>)
    [] n.Value = "<" -> emit(c, LESS, <<>>)
    [] n.Value = "=" -> emit(c, EQ, <<>>)
    [] n.Value = "?" -> emit(c, NEQ, <<>>)
    [] OTHER -> Errorf(c, "unknown operator")
\* compileNode, case parser.Identifier
compileIdentifier(c, n) ==
  LET r == Resolve(c.symbolTable, n.Value)
  IN IF ~r.ok THEN Errorf(c, "undefined identifier")
     ELSE IF r.symbol.Type = "FunctionSymbol"
          THEN emit(c, CALL_FUNCTION, <<OpString(Utf8[n.Value])>>)
          ELSE emit(c, PUSH_VARIABLE, <<OpString(Utf8[n.Value])>>)
\* compileNode, case parser.IfStatement
compileIfStatement(c, n) ==
  LET c1 == compileNode(c, n.Condition)
  IN IF c1.err # "" THEN c1
     ELSE LET c2 == compileNode(emit(c1, OP_IF, <<>>), n.ThenBlock)
          IN IF c2.err # "" THEN c2
             ELSE IF n.ElseBlock # Nil
                  THEN LET c3 == compileNode(emit(c2, OP_ELSE, <<>>), n.ElseBlock)
                       IN IF c3.err # "" THEN c3 ELSE emit(c3, ENDIF, <<>>)
                  ELSE emit(c2, ENDIF, <<>>)
\* compileNode, case parser.ReturnStatement
compileReturnStatement(c, n) ==
  LET c1 == compileNode(c, n.ReturnValue)
  IN IF c1.err # "" THEN c1 ELSE emit(c1, RETURN, <<>>)
\* compileNode, case parser.LambdaExpression
compileLambdaExpression(c, n) ==
  LET paramNames == [i \in 1..Len(n.Params) |-> n.Params[i].Variable]
      jumpInstructionIndex == Len(c.bytecode)
      c1 == enterScope(emit(c, JUMP, <<OpInt(0)>>))
      c2 == [c1 EXCEPT !.symbolTable = DefineVariables(@, paramNames)]
      startAddress == Len(c2.bytecode)
      c3 == compileNodes(c2, n.Body)
  IN IF c3.err # "" THEN c3
     ELSE LET endAddress == Len(c3.bytecode)
              jumpOffset == Len(c3.bytecode) - jumpInstructionIndex
              correctOffset == calculateCorrectedOffset(c3.bytecode, jumpOffset) - 1
              c4 == [c3 EXCEPT !.bytecode =
                       updateJumpInstruction(@, jumpInstructionIndex, correctOffset)]
              capturedVariables == determineCapturedVariables(c4, n.Body, n.Params)
              \* lambdas records each call of determineCapturedVariables and
              \* is not read by the compiler
              c5 == [c4 EXCEPT !.lambdas =
                       Append(@, [symbolTable |-> c4.symbolTable, lambdaExpr |-> n,
                                  capturedVariables |-> capturedVariables])]
          IN leaveScope(emit(c5, CREATE_LAMBDA,
               <<OpInt(startAddress), OpInt(endAddress), OpInt(Len(n.Params)),
                 OpStrings(paramNames), OpInt(Len(capturedVariables)),
                 OpStrings(capturedVariables)>>))
\* compileNode, case parser.LambdaCall
compileLambdaCall(c, n) ==
  LET c1 == compileNode(c, n.Lambda)
  IN IF c1.err # "" THEN c1
     ELSE LET c2 == compileNodes(c1, n.Arguments)
          IN IF c2.err # "" THEN c2
             ELSE emit(c2, CALL_LAMBDA, <<OpInt(Len(n.Arguments))>>)
\* the arguments compiled before the lambda
compileMapExpression_argumentsFirst(c, mapExpr) ==
  LET c1 == compileNodes(c, mapExpr.Arguments)
  IN IF c1.err # "" THEN c1
     ELSE LET c2 == compileNode(c1, mapExpr.Lambda)
          IN IF c2.err # "" THEN c2
             ELSE emit(c2, MAP, <<OpInt(Len(mapExpr.Arguments))>>)
compileMapExpression(c, mapExpr) ==
  LET c1 == compileNode(c, mapExpr.Lambda)
  IN IF c1.err # "" THEN c1
     ELSE LET c2 == compileNodes(c1, mapExpr.Arguments)
          IN IF c2.err # "" THEN c2
             ELSE emit(c2, MAP, <<OpInt(Len(mapExpr.Arguments))>>)
\* The compiler source at hand has no case for parser.FilterExpression; its
\* documented behaviour is that of MapExpression with the FILTER opcode.
compileFilterExpression(c, filterExpr) ==
  LET c1 == compileNode(c, filterExpr.Lambda)
  IN IF c1.err # "" THEN c1
     ELSE LET c2 == compileNodes(c1, filterExpr.Arguments)
          IN IF c2.err # "" THEN c2
             ELSE emit(c2, FILTER, <<OpInt(Len(filterExpr.Arguments))>>)
compileFunctionDefinition(c, fnDef) ==
  LET startAddress == Len(c.bytecode)
      paramNames == [i \in 1..Len(fnDef.Params) |-> fnDef.Params[i].Variable]
      st1 == DefineFunction(DefineVariables(c.symbolTable, paramNames),
                            fnDef.Name, startAddress, paramNames)
      c1 == emit([c EXCEPT !.symbolTable = st1], JUMP, <<OpInt(0)>>)
      c2 == setCurrentFunction(enterScope(c1), fnDef.Name)
      instructionCountBeforeBody == Len(c2.bytecode)
      \* the body loop compiles a ReturnStatement as compileNode does
      c3 == compileNodes(c2, fnDef.Body)
  IN IF c3.err # "" THEN c3
     ELSE LET c4 == IF ~endsInReturn(fnDef.Body) THEN emit(c3, RETURN, <<>>) ELSE c3
              instructionCountAfterBody == Len(c4.bytecode)
              jumpOffset == instructionCountAfterBody - instructionCountBeforeBody
              correctOffset == calculateCorrectedOffset(c4.bytecode, jumpOffset) - 1
              c5 == leaveScope([c4 EXCEPT !.bytecode =
                                  updateJumpInstruction(@, startAddress, correctOffset)])
              c6 == setCurrentFunction(c5, "")
              c7 == [c6 EXCEPT !.symbolTable =
                       DefineFunction(@, fnDef.Name, startAddress, paramNames)]
          IN emit(c7, DEFINE_FUNCTION,
                  <<OpString(Utf8[fnDef.Name]), OpInt(startAddress),
                    OpInt(Len(fnDef.Params)), OpStrings(paramNames)>>)
compileNode(c, n) ==
  CASE n.k = "List" -> compileList(c, n.Items)
    [] n.k = "Identifier" -> compileIdentifier(c, n)
    [] n.k = "Number" -> emit(c, PUSH_NUMBER, <<OpFloat64(n.Value)>>)
    [] n.k = "Boolean" -> emit(c, PUSH_BOOL, <<OpBool(n.Value)>>)
    [] n.k = "String" -> emit(c, PUSH_STRING, <<OpString(Trim(n.Value))>>)
    [] n.k = "Operator" -> compileOperator(c, n)
    [] n.k = "IfStatement" -> compileIfStatement(c, n)
    [] n.k = "FunctionDefinition" -> compileFunctionDefinition(c, n)
    [] n.k = "ReturnStatement" -> compileReturnStatement(c, n)
    [] n.k = "LambdaExpression" -> compileLambdaExpression(c, n)
    [] n.k = "LambdaCall" -> compileLambdaCall(c, n)
    [] n.k = "MapExpression" -> compileMapExpression(c, n)
    [] n.k = "FilterExpression" -> compileFilterExpression(c, n)
    [] OTHER -> Errorf(c, "unknown node type")
\* CompileASTByte
CompileASTByte(ast, perm) == compileNode(NewCompiler(perm), ast)

(***************************************************************************)
(* convertBytecode: the decoder.  A reader returns the index after what it *)
(* read, the operands it appended and whether the data ran out.  i is      *)
(* 0-based as in the source; currentOffset always equals i there.          *)
(***************************************************************************)
Bytes(raw, i, n) == SubSeq(raw, i + 1, i + n)
Short(i, ops) == [i |-> i, operands |-> ops, err |-> TRUE, panic |-> FALSE]
Read(i, ops) == [i |-> i, operands |-> ops, err |-> FALSE, panic |-> FALSE]
\* four bytes appended as one operand
readWord(raw, i, ops) ==
  IF i + 4 > Len(raw) THEN Short(i, ops) ELSE Read(i + 4, Append(ops, Bytes(raw, i, 4)))
\* a length word and that many bytes, appended as two operands
readString(raw, i, ops) ==
  IF i + 4 > Len(raw) THEN Short(i, ops)
  ELSE LET strLen == Uint32(Bytes(raw, i, 4))
       IN IF strLen > Len(raw) - (i + 4) THEN Short(i + 4, ops)
          ELSE Read(i + 4 + strLen, ops \o <<Bytes(raw, i, 4), Bytes(raw, i + 4, strLen)>>)
RECURSIVE readStrings(_, _, _, _)
readStrings(raw, i, ops, count) ==
  IF count = 0 THEN Read(i, ops)
  ELSE LET r == readString(raw, i, ops)
       IN IF r.err THEN r ELSE readStrings(raw, r.i, r.operands, count - 1)
\* case DEFINE_FUNCTION, the loop over the parameters: the length of a name
\* is checked against i before i moves past the length word, so a name
\* running less than four bytes over the end is sliced out of range
RECURSIVE readParams(_, _, _, _)
readParams(raw, i, ops, count) ==
  IF count = 0 THEN Read(i, ops)
  ELSE IF i + 4 > Len(raw) THEN Short(i, ops)
  ELSE LET paramNameLen == Uint32(Bytes(raw, i, 4))
       IN IF paramNameLen > Len(raw) - i THEN Short(i, ops)
          ELSE IF paramNameLen > Len(raw) - (i + 4)
               THEN [i |-> i, operands |-> ops, err |-> TRUE, panic |-> TRUE]
          ELSE readParams(raw, i + 4 + paramNameLen,
                          ops \o <<Bytes(raw, i, 4), Bytes(raw, i + 4, paramNameLen)>>,
                          count - 1)
\* case DEFINE_FUNCTION
readDefineFunction(raw, i) ==
  IF i + 4 > Len(raw) THEN Short(i, <<>>)
  ELSE LET funcNameLen == Uint32(Bytes(raw, i, 4))
           i1 == i + 4
       IN IF funcNameLen > Len(raw) - i1 THEN Short(i1, <<>>)
          ELSE LET funcNameBytes == Bytes(raw, i1, funcNameLen)
                   i2 == i1 + funcNameLen
               IN IF i2 + 12 > Len(raw) THEN Short(i2, <<>>)
                  ELSE LET startAddressBytes == Bytes(raw, i2, 4)
                           paramCountBytes == Bytes(raw, i2 + 4, 4)
                           paramNamesLenBytes == Bytes(raw, i2 + 8, 4)
                           ops == <<funcNameBytes, startAddressBytes, paramCountBytes,
                                    paramNamesLenBytes>>
                       IN IF Uint32(paramNamesLenBytes) # Uint32(paramCountBytes)
                          THEN Short(i2 + 8, ops)
                          ELSE readParams(raw, i2 + 12, ops, Uint32(paramCountBytes))
\* case CREATE_LAMBDA: the two slice-length words are read but not kept
readCreateLambda(raw, i) ==
  IF i + 16 > Len(raw) THEN Short(i, <<>>)
  ELSE LET ops == <<Bytes(raw, i, 4), Bytes(raw, i + 4, 4), Bytes(raw, i + 8, 4)>>
           numParam == Uint32(Bytes(raw, i + 8, 4))
           paramSliceLen == Uint32(Bytes(raw, i + 12, 4))
       IN IF paramSliceLen # numParam THEN Short(i + 16, ops)
          ELSE LET r == readStrings(raw, i + 16, ops, numParam)
               IN IF r.err THEN r
                  ELSE IF r.i + 8 > Len(raw) THEN Short(r.i, r.operands)
                  ELSE readStrings(raw, r.i + 8, Append(r.operands, Bytes(raw, r.i, 4)),
                                   Uint32(Bytes(raw, r.i, 4)))
\* The decoder at hand has no case for FILTER; its operand is documented as
\* the argument count, laid out as that of MAP.
readFilter(raw, i) == readWord(raw, i, <<>>)
readOperands(raw, opcode, i) ==
  CASE opcode = PUSH_NUMBER ->
         IF i + 8 > Len(raw) THEN Short(i, <<>>) ELSE Read(i + 8, <<Bytes(raw, i, 8)>>)
    [] opcode = PUSH_BOOL ->
         IF i >= Len(raw) THEN Short(i, <<>>) ELSE Read(i + 1, <<raw[i + 1]>>)
    [] opcode \in {PUSH_STRING, PUSH_VARIABLE, DEFINE_VARIABLE, CALL_FUNCTION} ->
         readString(raw, i, <<>>)
    [] opcode = DEFINE_FUNCTION -> readDefineFunction(raw, i)
    [] opcode \in {JUMP, CALL_LAMBDA, MAP} -> readWord(raw, i, <<>>)
    [] opcode = CREATE_LAMBDA -> readCreateLambda(raw, i)
    [] opcode = FILTER -> readFilter(raw, i)
    [] OTHER -> Read(i, <<>>)
BytecodeInstruction(opcode, operands) == [Opcode |-> opcode, Operands |-> operands]
RECURSIVE convertLoop(_, _, _, _)
\* a loop that records the offset after it has read the opcode
convertLoop_afterOpcode(raw, i, instructions, offsetToInstructionIndex) ==
  IF ~(i < Len(raw))
  THEN [instructions |-> instructions, offsetMap |-> offsetToInstructionIndex, err |-> ""]
  ELSE LET r == readOperands(raw, raw[i + 1], i + 1)
       IN IF r.err
          THEN [instructions |-> <<>>, offsetMap |-> EmptyMap,
                err |-> IF r.panic THEN "panic: slice bounds out of range"
                        ELSE "invalid bytecode"]
          ELSE convertLoop(raw, r.i,
                           Append(instructions, BytecodeInstruction(raw[i + 1], r.operands)),
                           ((i + 1) :> Len(instructions)) @@ offsetToInstructionIndex)
convertLoop(raw, i, instructions, offsetToInstructionIndex) ==
  IF ~(i < Len(raw))
  THEN [instructions |-> instructions, offsetMap |-> offsetToInstructionIndex, err |-> ""]
  ELSE LET r == readOperands(raw, raw[i + 1], i + 1)
       IN IF r.err
          THEN [instructions |-> <<>>, offsetMap |-> EmptyMap,
                err |-> IF r.panic THEN "panic: slice bounds out of range"
                        ELSE "invalid bytecode"]
          ELSE convertLoop(raw, r.i,
                           Append(instructions, BytecodeInstruction(raw[i + 1], r.operands)),
                           (i :> Len(instructions)) @@ offsetToInstructionIndex)
convertBytecode(rawBytecode) == convertLoop(rawBytecode, 0, <<>>, EmptyMap)
\* emit applied to decoded records, one after the other: the operands of a
\* record are []byte and byte values, serializeOperands has no case for
\* either type and its default case appends nothing for them
RECURSIVE encodeRecords(_)
encodeRecords(instructions) ==
  IF instructions = <<>> THEN <<>>
  ELSE <<Head(instructions).Opcode>> \o encodeRecords(Tail(instructions))
\* CompileAST: compileNode, then convertBytecode
CompileAST(ast, perm) ==
  LET c == CompileASTByte(ast, perm)
  IN IF c.err # "" THEN [instructions |-> <<>>, offsetMap |-> EmptyMap, err |-> c.err]
     ELSE convertBytecode(c.bytecode)

(***************************************************************************)
(* Programs: the ASTs handed to CompileAST.  BinExpr and Call build the    *)
(* shapes the parser gives to (op a b) and to f(args).                     *)
(***************************************************************************)
BinExpr(o, a, b) == List(<<Operator(o), List(<<a>>), List(<<List(<<b>>)>>)>>)
Call(f, args) == List(<<Identifier(f), List(args)>>)
PrintOf(e) == List(<<Identifier("print"), e>>)
Let(v, e) == List(<<TypeAnnotation(v), e>>)
Lambda1(x, body) == LambdaExpression(<<TypeAnnotation(x)>>, body)
\* (if true (print 1) else (print 2)), a statement with an ELSE and an ENDIF
IfPrint == IfStatement(Boolean(TRUE), PrintOf(Number(1)), List(<<PrintOf(Number(2))>>))
\* (if false e): IF pops false and scans to the first ELSE ahead
Guarded(e) == IfStatement(Boolean(FALSE), e, Nil)
Numbers(n) == [k \in 1..n |-> Number(k)]

\* (let x 1) (let x 2)
P_LetTwice == List(<<Let("x", Number(1)), Let("x", Number(2))>>)
\* the second let has a value that leaves nothing on the stack
P_LetEmpty == List(<<Let("x", Number(1)), Let("x", PrintOf(Number(2)))>>)
\* S2: (def double (x:int) (ret (* x 2))) (print (double(7)))
P_S2 ==
  List(<<FunctionDefinition("double", <<TypeAnnotation("x")>>,
           <<ReturnStatement(List(<<BinExpr("*", Identifier("x"), Number(2))>>))>>),
         PrintOf(List(<<Call("double", <<Number(7)>>)>>))>>)
\* S4: (def factorial (x:int) (if (= x 0) (ret 1) else (ret (* x factorial(- x 1)))))
\*     (print (factorial(5)))
P_S4 ==
  List(<<FunctionDefinition("factorial", <<TypeAnnotation("x")>>,
           <<IfStatement(BinExpr("=", Identifier("x"), Number(0)),
               ReturnStatement(List(<<Number(1)>>)),
               List(<<ReturnStatement(List(<<
                 BinExpr("*", Identifier("x"),
                   Call("factorial", <<BinExpr("-", Identifier("x"), Number(1))>>))>>))>>))>>),
         PrintOf(List(<<Call("factorial", <<Number(5)>>)>>))>>)
\* S6: (print (map ((x:int) -> (* x 2)) (1 2 3 4 5)))
P_S6 ==
  List(<<PrintOf(List(<<MapExpression(
    Lambda1("x", <<BinExpr("*", Identifier("x"), Number(2))>>), Numbers(5))>>))>>)
\* (print 1) (def f () (ret 1)): a function that is not the first form
P_FnSecond ==
  List(<<PrintOf(Number(1)),
         FunctionDefinition("f", <<>>, <<ReturnStatement(List(<<Number(1)>>))>>)>>)
\* (print 1) (def f () (ret true)) (print (f))
P_FnBoolSecond ==
  List(<<PrintOf(Number(1)),
         FunctionDefinition("f", <<>>, <<ReturnStatement(List(<<Boolean(TRUE)>>))>>),
         PrintOf(List(<<Identifier("f")>>))>>)
\* (def f () (ret 1)) (5 (f)): the call finds one value below its arguments
P_CallDepth ==
  List(<<FunctionDefinition("f", <<>>, <<ReturnStatement(List(<<Number(1)>>))>>),
         List(<<Number(5), List(<<Identifier("f")>>)>>)>>)
\* ((x:int) -> (* x 2))(3)
P_LCall ==
  List(<<LambdaCall(Lambda1("x", <<BinExpr("*", Identifier("x"), Number(2))>>),
                    <<Number(3)>>)>>)
\* (print (map ((x:int) -> (x x)) (1 2))): the body leaves two values
P_MapXX ==
  List(<<PrintOf(List(<<MapExpression(
    Lambda1("x", <<List(<<Identifier("x"), Identifier("x")>>)>>), Numbers(2))>>))>>)
\* x is 0 at top level; the lambda A (x) creates and returns the lambda B (),
\* whose body reads x; B is called at top level after A has returned
P_Closure ==
  List(<<Let("x", Number(0)),
         Guarded(LambdaCall(
           LambdaCall(
             Lambda1("x", <<Guarded(LambdaExpression(<<>>, <<Identifier("x"), IfPrint>>))>>),
             <<Number(7)>>),
           <<>>))>>)
\* y is 0 at top level; the lambda L () reads y and is created at top level;
\* the lambda A (y) calls L from its body
P_DynScope ==
  List(<<Let("y", Number(0)),
         LambdaCall(
           List(<<Guarded(LambdaExpression(<<>>, <<Identifier("y"), IfPrint>>)),
                  Guarded(Lambda1("y", <<LambdaCall(PrintOf(Number(1)), <<>>), IfPrint>>))>>),
           <<Number(7)>>)>>)
\* (print (+ 1 2)) (print (- 5 3)) (print (> 2 1)) (print (< 2 1)) (print (= 1 1))
\* (print (? 1 2)) (print (= 'x' 'y')) (print true)
P_Ops ==
  List(<<PrintOf(List(<<BinExpr("+", Number(1), Number(2))>>)),
         PrintOf(List(<<BinExpr("-", Number(5), Number(3))>>)),
         PrintOf(List(<<BinExpr(">", Number(2), Number(1))>>)),
         PrintOf(List(<<BinExpr("<", Number(2), Number(1))>>)),
         PrintOf(List(<<BinExpr("=", Number(1), Number(1))>>)),
         PrintOf(List(<<BinExpr("?", Number(1), Number(2))>>)),
         PrintOf(List(<<BinExpr("=", String(<<39, 120, 39>>), String(<<39, 121, 39>>))>>)),
         PrintOf(Boolean(TRUE))>>)
\* (print (filter ((x:int) -> (> x 0)) (-1 2 0)))
P_Filter ==
  List(<<PrintOf(List(<<FilterExpression(
    Lambda1("x", <<BinExpr(">", Identifier("x"), Number(0))>>),
    <<Number(-1), Number(2), Number(0)>>)>>))>>)
\* (print (filter ((x:int) -> (x (> x 1))) (1 2 3))): the body leaves two values
P_FilterXX ==
  List(<<PrintOf(List(<<FilterExpression(
    Lambda1("x", <<List(<<Identifier("x"), BinExpr(">", Identifier("x"), Number(1))>>)>>),
    Numbers(3))>>))>>)
\* (print (map ((x:int) -> (* x 2)) (1 ... n)))
P_MapN(n) ==
  List(<<PrintOf(List(<<MapExpression(
    Lambda1("x", <<BinExpr("*", Identifier("x"), Number(2))>>), Numbers(n))>>))>>)
\* (print (filter ((x:int) -> (> x 1)) (1 ... n)))
P_FilterN(n) ==
  List(<<PrintOf(List(<<FilterExpression(
    Lambda1("x", <<BinExpr(">", Identifier("x"), Number(1))>>), Numbers(n))>>))>>)
\* ((x:int) -> (x))(): a lambda of one parameter called with no argument
P_LCallShort == List(<<LambdaCall(Lambda1("x", <<Identifier("x")>>), <<>>)>>)
\* (def f (x:int y:int) (0) (ret (- x y))) (print (f(5 3)))
P_Sub ==
  List(<<FunctionDefinition("f", <<TypeAnnotation("x"), TypeAnnotation("y")>>,
           <<Number(0),
             ReturnStatement(List(<<BinExpr("-", Identifier("x"), Identifier("y"))>>))>>),
         PrintOf(List(<<Call("f", <<Number(5), Number(3)>>)>>))>>)
\* (if (false) (print 1)) (print 2)
P_IfNoElse == List(<<Guarded(PrintOf(Number(1))), PrintOf(Number(2))>>)
\* (if (false) (if (true) (print 1) else (print 2)) else (print 3)) (print 4)
P_NestedIf ==
  List(<<IfStatement(Boolean(FALSE),
                     IfStatement(Boolean(TRUE), PrintOf(Number(1)), PrintOf(Number(2))),
                     PrintOf(Number(3))),
         PrintOf(Number(4))>>)
\* (if (true) (print 1) else ((if (true) (print 2) else (print 3)) (print 5))) (print 4)
P_NestedElse ==
  List(<<IfStatement(Boolean(TRUE), PrintOf(Number(1)),
                     List(<<IfStatement(Boolean(TRUE), PrintOf(Number(2)), PrintOf(Number(3))),
                            PrintOf(Number(5))>>)),
         PrintOf(Number(4))>>)
\* f binds x in its own frame while the global frame binds x too
P_ShadowFn ==
  List(<<FunctionDefinition("f", <<TypeAnnotation("y")>>,
           <<Number(0), Let("x", Number(2)), ReturnStatement(List(<<Identifier("x")>>))>>),
         Let("x", Number(1)),
         PrintOf(List(<<Call("f", <<Number(5)>>)>>))>>)
\* ((x:int) -> (print x))(3): the body leaves nothing on the stack
P_LambdaPrint == List(<<LambdaCall(Lambda1("x", <<PrintOf(Identifier("x"))>>), <<Number(3)>>)>>)
\* (print (map ((x:int) -> (print x)) (1 2)))
P_MapPrint ==
  List(<<PrintOf(List(<<MapExpression(Lambda1("x", <<PrintOf(Identifier("x"))>>),
                                      <<Number(1), Number(2)>>)>>))>>)
\* (print 1) ((x:int) -> (* x 2))(3): a lambda that is not the first instruction
P_LambdaSecond ==
  List(<<PrintOf(Number(1)),
         LambdaCall(Lambda1("x", <<BinExpr("*", Identifier("x"), Number(2))>>), <<Number(3)>>)>>)
\* ((y:int) -> ((let x 2) x))(5) (let z 1) (() -> (if (true) z))()
\* (let x 3) (() -> (+ z x))(): the first lambda binds a local x, the second
\* refers to the global z in an if-statement, the third to the globals z and x
P_Captures ==
  List(<<LambdaCall(Lambda1("y", <<Let("x", Number(2)), Identifier("x")>>), <<Number(5)>>),
         Let("z", Number(1)),
         LambdaCall(LambdaExpression(<<>>, <<IfStatement(Boolean(TRUE), Identifier("z"), Nil)>>),
                    <<>>),
         Let("x", Number(3)),
         LambdaCall(LambdaExpression(<<>>, <<BinExpr("+", Identifier("z"), Identifier("x"))>>),
                    <<>>)>>)
\* (let x a) (let y b) (print (o x y)) for the operator o and the a-th and b-th
\* of seven values: the numbers 1 and 2, the strings 'x' and 'y', true, a
\* lambda and the list that a map gives.  The value with a lambda comes first
\* so that its JUMP is the first instruction, and for a = b the operands are
\* twice the same variable.
P_Eq(o, a, b) ==
  LET identity == Lambda1("z", <<Identifier("z")>>)
      values == <<Number(1), Number(2), String(<<39, 120, 39>>), String(<<39, 121, 39>>),
                  Boolean(TRUE), identity, MapExpression(identity, <<Number(1)>>)>>
      compare(l, r) == PrintOf(List(<<BinExpr(o, Identifier(l), Identifier(r))>>))
  IN IF a = b THEN List(<<Let("x", values[a]), compare("x", "x")>>)
     ELSE IF b >= 6 THEN List(<<Let("y", values[b]), Let("x", values[a]), compare("x", "y")>>)
     ELSE List(<<Let("x", values[a]), Let("y", values[b]), compare("x", "y")>>)
\* (print (/ 6 3)); the lexer has no token for /, so the program is given as
\* the tree the parser would build for an operator application
P_Div == List(<<PrintOf(List(<<BinExpr("/", Number(6), Number(3))>>))>>)
\* (def f (x:int) (0) (if (> x 1) (print (f (- x 1))) else (0)) (ret x))
\* (print (f 2)): f calls itself and reads its parameter after the inner call
P_Recur ==
  List(<<FunctionDefinition("f", <<TypeAnnotation("x")>>,
           <<Number(0),
             IfStatement(BinExpr(">", Identifier("x"), Number(1)),
               PrintOf(List(<<Call("f", <<BinExpr("-", Identifier("x"), Number(1))>>)>>)),
               List(<<Number(0)>>)),
             ReturnStatement(List(<<Identifier("x")>>))>>),
         PrintOf(List(<<Call("f", <<Number(2)>>)>>))>>)
\* 5 (if false (map ((x:int) -> ((print x) (if true (print 1) else (print 2)))) (1))):
\* a value lies under the lambda, and the body leaves nothing on the stack
P_BelowMap ==
  List(<<Number(5),
         Guarded(MapExpression(Lambda1("x", <<PrintOf(Identifier("x")), IfPrint>>),
                               <<Number(1)>>))>>)
\* the same with a call of the lambda in place of the map
P_BelowCall ==
  List(<<Number(5),
         Guarded(LambdaCall(Lambda1("x", <<PrintOf(Identifier("x")), IfPrint>>),
                            <<Number(1)>>))>>)
\* the largest argument count of the map and filter programs
MaxArgs == 3
Programs ==
  <<P_LetTwice, P_LetEmpty, P_S2, P_S4, P_S6, P_FnSecond, P_FnBoolSecond, P_CallDepth,
    P_LCall, P_MapXX, P_Closure, P_DynScope, P_Ops, P_Filter, P_FilterXX,
    P_LCallShort, P_Sub, P_IfNoElse, P_NestedIf, P_NestedElse, P_ShadowFn,
    P_LambdaPrint, P_MapPrint, P_LambdaSecond, P_Captures>>
  \o [n \in 1..(MaxArgs + 1) |-> P_MapN(n - 1)]
  \o [n \in 1..(MaxArgs + 1) |-> P_FilterN(n - 1)]
  \* every pair of the seven values but lambda with list, which would need
  \* two lambdas in one program
  \o SelectSeq([n \in 1..98 |-> P_Eq(IF n <= 49 THEN "=" ELSE "?",
                                      (((n - 1) % 49) \div 7) + 1, ((n - 1) % 7) + 1)],
               LAMBDA p : Len(p.Items) = 2
                            \/ p.Items[2].Items[2].k \notin {"MapExpression", "LambdaExpression"})
  \o <<P_Div, P_Recur, P_BelowMap, P_BelowCall>>

(***************************************************************************)
(* The virtual machine (vm/vm.go).                                         *)
(*   stack, pc, code, offsetMap, symbolTableStack, functions, callStack    *)
(*     are the fields of VM; pc and instruction indices are 0-based.       *)
(*   tables is the heap of RuntimeSymbolTable objects; a table is named by *)
(*     its index and symbolTableStack holds such indices.                  *)
(*   runs is the Go call stack of Run: one entry per activation of Run,    *)
(*     with the locals of the handler that started it.                     *)
(*   status, err: how the pipeline ended; out: the values PRINT has shown. *)
(*   prog, perm: the input, an index into Programs and the map order.      *)
(***************************************************************************)
VARIABLES stack, pc, code, offsetMap, symbolTableStack, functions, callStack,
          tables, runs, status, err, out, prog, perm
vars == <<stack, pc, code, offsetMap, symbolTableStack, functions, callStack,
          tables, runs, status, err, out, prog, perm>>
input == <<code, offsetMap, prog, perm>>

\* bound on the number of RuntimeSymbolTable objects a run allocates
MaxTables == 12

\* values on the stack, tagged with their Go dynamic type
NumV(n) == [t |-> "float64", num |-> n]
BoolV(b) == [t |-> "bool", bool |-> b]
StrV(bytes) == [t |-> "string", str |-> bytes]
ListV(items) == [t |-> "list", items |-> items]
LambdaV(l) == [t |-> "lambda", fn |-> l]
NilV == [t |-> "nil"]

\* NewRuntimeSymbolTable; kind and owner record which handler made the table
\* and for which code (the body of a lambda, from start up to end, or the
\* name of a function), and play no part in the execution
RuntimeSymbolTable(symbols, parent, kind, owner) ==
  [symbols |-> symbols, parent |-> parent, kind |-> kind, owner |-> owner]
\* RuntimeSymbolTable.Get: the table, then its parents
RECURSIVE Get(_, _, _)
Get(tbls, id, name) ==
  IF name \in DOMAIN tbls[id].symbols
  THEN [exists |-> TRUE, value |-> tbls[id].symbols[name]]
  ELSE IF tbls[id].parent # 0 THEN Get(tbls, tbls[id].parent, name)
  ELSE [exists |-> FALSE, value |-> NilV]
\* RuntimeSymbolTable.Set
Set(tbls, id, name, value) ==
  [tbls EXCEPT ![id].symbols = (name :> value) @@ @]
\* for i, paramName := range paramNames { table.Set(paramName, args[i]) }
RECURSIVE BindParams(_, _, _)
\* a binding that gives every parameter the last argument
BindParams_last(symbols, paramNames, args) ==
  [n \in {paramNames[i] : i \in 1..Len(paramNames)} |-> args[Len(args)]] @@ symbols
BindParams(symbols, paramNames, args) ==
  IF paramNames = <<>> THEN symbols
  ELSE BindParams((Head(paramNames) :> Head(args)) @@ symbols, Tail(paramNames), Tail(args))

\* NewVM after CompileAST; a compile error ends the pipeline before any run
Init ==
  /\ prog \in 1..Len(Programs)
  /\ perm \in {1, 2}
  /\ LET r == CompileAST(Programs[prog], perm)
     IN /\ code = r.instructions
        /\ offsetMap = r.offsetMap
        /\ status = IF r.err = "" THEN "running" ELSE "compile error"
        /\ err = r.err
        /\ runs = IF r.err = "" THEN <<[kind |-> "Run", end |-> Len(r.instructions)]>> ELSE <<>>
  /\ stack = <<>>
  /\ pc = 0
  /\ symbolTableStack = <<1>>
  /\ tables = <<RuntimeSymbolTable(EmptyMap, 0, "global", 0)>>
  /\ functions = EmptyMap
  /\ callStack = <<>>
  /\ out = <<>>

\* the Run loop is at an instruction: vm.pc < end of the innermost Run
Running == status = "running" /\ pc < runs[Len(runs)].end
instruction == code[pc + 1]
At(opcode) == Running /\ instruction.Opcode = opcode
\* return fmt.Errorf(msg)
Fail(msg) ==
  /\ status' = "error"
  /\ err' = msg
\* a Go run-time panic (index or slice out of range)
Panic(msg) ==
  /\ status' = "panic"
  /\ err' = msg
Pop(s, n) == SubSeq(s, 1, Len(s) - n)
Top(s) == s[Len(s)]

Run_PUSH_NUMBER ==
  /\ At(PUSH_NUMBER)
  /\ IF Len(instruction.Operands) < 1
     THEN Fail("PUSH_NUMBER instruction requires an operand") /\ UNCHANGED <<stack, pc>>
     ELSE IF Len(instruction.Operands[1]) # 8
     THEN Fail("Invalid operand for PUSH_NUMBER instruction") /\ UNCHANGED <<stack, pc>>
     ELSE /\ stack' = Append(stack, NumV(Float64frombits(instruction.Operands[1])))
          /\ pc' = pc + 1
          /\ UNCHANGED <<status, err>>
  /\ UNCHANGED <<input, symbolTableStack, functions, callStack, tables, runs, out>>

Run_PUSH_BOOL ==
  /\ At(PUSH_BOOL)
  /\ IF Len(instruction.Operands) < 1
     THEN Fail("PUSH_BOOL instruction requires an operand") /\ UNCHANGED <<stack, pc>>
     ELSE /\ stack' = Append(stack, BoolV(instruction.Operands[1] # 0))
          /\ pc' = pc + 1
          /\ UNCHANGED <<status, err>>
  /\ UNCHANGED <<input, symbolTableStack, functions, callStack, tables, runs, out>>

Run_PUSH_STRING ==
  /\ At(PUSH_STRING)
  /\ IF Len(instruction.Operands[1]) # 4
     THEN Fail("Invalid or missing length for string in PUSH_STRING instruction")
          /\ UNCHANGED <<stack, pc>>
     ELSE IF Len(instruction.Operands[2]) # Uint32(instruction.Operands[1])
     THEN Fail("Invalid or missing string in PUSH_STRING instruction")
          /\ UNCHANGED <<stack, pc>>
     ELSE /\ stack' = Append(stack, StrV(instruction.Operands[2]))
          /\ pc' = pc + 1
          /\ UNCHANGED <<status, err>>
  /\ UNCHANGED <<input, symbolTableStack, functions, callStack, tables, runs, out>>

\* the cases with the operands taken in the other order: operand1 is the top
BinaryFloat_swapped(name) ==
  /\ IF Len(stack) < 2
     THEN Fail(name \o " instruction requires at least 2 values on the stack")
          /\ UNCHANGED <<stack, pc>>
     ELSE LET operand2 == stack[Len(stack) - 1]
              operand1 == stack[Len(stack)]
          IN IF operand2.t # "float64" \/ operand1.t # "float64"
             THEN Fail(name \o " instruction requires float operands")
                  /\ UNCHANGED <<stack, pc>>
             ELSE /\ stack' = Append(Pop(stack, 2),
                       CASE name = "ADD" -> NumV(operand1.num + operand2.num)
                         [] name = "SUB" -> NumV(operand1.num - operand2.num)
                         [] name = "MUL" -> NumV(operand1.num * operand2.num)
                         [] name = "GRT" -> BoolV(operand1.num > operand2.num)
                         [] name = "LESS" -> BoolV(operand1.num < operand2.num))
                  /\ pc' = pc + 1
                  /\ UNCHANGED <<status, err>>
  /\ UNCHANGED <<input, symbolTableStack, functions, callStack, tables, runs, out>>
\* the cases ADD, SUB, MUL, GRT, LESS: two float64 operands, operand1 the
\* lower one, replaced by the result of the case's operator
BinaryFloat(name) ==
  /\ IF Len(stack) < 2
     THEN Fail(name \o " instruction requires at least 2 values on the stack")
          /\ UNCHANGED <<stack, pc>>
     ELSE LET operand2 == stack[Len(stack)]
              operand1 == stack[Len(stack) - 1]
          IN IF operand2.t # "float64" \/ operand1.t # "float64"
             THEN Fail(name \o " instruction requires float operands")
                  /\ UNCHANGED <<stack, pc>>
             ELSE /\ stack' = Append(Pop(stack, 2),
                       CASE name = "ADD" -> NumV(operand1.num + operand2.num)
                         [] name = "SUB" -> NumV(operand1.num - operand2.num)
                         [] name = "MUL" -> NumV(operand1.num * operand2.num)
                         [] name = "GRT" -> BoolV(operand1.num > operand2.num)
                         [] name = "LESS" -> BoolV(operand1.num < operand2.num))
                  /\ pc' = pc + 1
                  /\ UNCHANGED <<status, err>>
  /\ UNCHANGED <<input, symbolTableStack, functions, callStack, tables, runs, out>>
Run_ADD ==
  /\ At(ADD)
  /\ BinaryFloat("ADD")
Run_SUB ==
  /\ At(SUB)
  /\ BinaryFloat("SUB")
Run_MUL ==
  /\ At(MUL)
  /\ BinaryFloat("MUL")
Run_GRT ==
  /\ At(GRT)
  /\ BinaryFloat("GRT")
Run_LESS ==
  /\ At(LESS)
  /\ BinaryFloat("LESS")

\* the cases with a test that accepts any two operands of the same variant
Equality_sameVariant(name) ==
  /\ IF Len(stack) < 2
     THEN Fail(name \o " instruction requires at least 2 values on the stack")
          /\ UNCHANGED <<stack, pc>>
     ELSE LET operand2 == stack[Len(stack)]
              operand1 == stack[Len(stack) - 1]
          IN IF operand2.t = operand1.t
             THEN /\ stack' = Append(Pop(stack, 2),
                                     LET same == operand1 = operand2
                                     IN BoolV(IF name = "EQ" THEN same ELSE ~same))
                  /\ pc' = pc + 1
                  /\ UNCHANGED <<status, err>>
             ELSE Fail(name \o " instruction requires operands of the same type")
                  /\ UNCHANGED <<stack, pc>>
  /\ UNCHANGED <<input, symbolTableStack, functions, callStack, tables, runs, out>>
\* the cases EQ and NEQ: both operands float64 or both string
Equality(name) ==
  /\ IF Len(stack) < 2
     THEN Fail(name \o " instruction requires at least 2 values on the stack")
          /\ UNCHANGED <<stack, pc>>
     ELSE LET operand2 == stack[Len(stack)]
              operand1 == stack[Len(stack) - 1]
          IN IF operand1.t \in {"float64", "string"} /\ operand2.t = operand1.t
             THEN /\ stack' = Append(Pop(stack, 2),
                                     LET same == IF operand1.t = "float64"
                                                 THEN operand1.num = operand2.num
                                                 ELSE operand1.str = operand2.str
                                     IN BoolV(IF name = "EQ" THEN same ELSE ~same))
                  /\ pc' = pc + 1
                  /\ UNCHANGED <<status, err>>
             ELSE Fail(name \o " instruction requires operands of the same type")
                  /\ UNCHANGED <<stack, pc>>
  /\ UNCHANGED <<input, symbolTableStack, functions, callStack, tables, runs, out>>
Run_EQ ==
  /\ At(EQ)
  /\ Equality("EQ")
Run_NEQ ==
  /\ At(NEQ)
  /\ Equality("NEQ")

Run_PRINT ==
  /\ At(PRINT)
  /\ IF Len(stack) < 1
     THEN Fail("PRINT instruction requires a value on the stack")
          /\ UNCHANGED <<stack, pc, out>>
     ELSE /\ out' = Append(out, Top(stack))
          /\ stack' = Pop(stack, 1)
          /\ pc' = pc + 1
          /\ UNCHANGED <<status, err>>
  /\ UNCHANGED <<input, symbolTableStack, functions, callStack, tables, runs>>

\* a DEFINE_VARIABLE that has lost its check
alreadyDefined_never(currentSymbolTable, varName) == FALSE
\* _, exists := currentSymbolTable.Get(varName)
alreadyDefined(currentSymbolTable, varName) == Get(tables, currentSymbolTable, varName).exists
Run_DEFINE_VARIABLE ==
  /\ At(DEFINE_VARIABLE)
  /\ IF Len(instruction.Operands) < 1
     THEN Fail("DEFINE_VARIABLE instruction requires a variable name as operand")
          /\ UNCHANGED <<stack, pc, tables>>
     ELSE LET varName == BytesToString(instruction.Operands[2])
          IN IF Len(stack) = 0
             THEN Fail("No value on stack to assign to variable")
                  /\ UNCHANGED <<stack, pc, tables>>
             ELSE IF Len(symbolTableStack) = 0
             THEN Panic("index out of range") /\ UNCHANGED <<stack, pc, tables>>
             ELSE LET value == Top(stack)
                      currentSymbolTable == Top(symbolTableStack)
                  IN /\ stack' = Pop(stack, 1)
                     /\ IF alreadyDefined(currentSymbolTable, varName)
                        THEN Fail("Variable is immutable and has already been defined")
                             /\ UNCHANGED <<pc, tables>>
                        ELSE /\ tables' = Set(tables, currentSymbolTable, varName, value)
                             /\ pc' = pc + 1
                             /\ UNCHANGED <<status, err>>
  /\ UNCHANGED <<input, symbolTableStack, functions, callStack, runs, out>>

\* the names in operands first, first+2, ... (each preceded by its length)
OperandNames(operands, first, count) ==
  [k \in 1..count |-> BytesToString(operands[first + 2 * (k - 1)])]
\* the checks on each length operand and each name operand
NamesValid(operands, first, count) ==
  \A k \in 1..count :
    /\ Len(operands[first + 2 * (k - 1) - 1]) = 4
    /\ Len(operands[first + 2 * (k - 1)]) = Uint32(operands[first + 2 * (k - 1) - 1])
\* for _, varName := range capturedVars { Get from the current table, Set }
RECURSIVE Capture(_, _, _)
Capture(symbols, currentSymbolTable, capturedVars) ==
  IF capturedVars = <<>> THEN symbols
  ELSE Capture((Head(capturedVars) :> Get(tables, currentSymbolTable, Head(capturedVars)).value)
                 @@ symbols, currentSymbolTable, Tail(capturedVars))

Run_CREATE_LAMBDA ==
  /\ At(CREATE_LAMBDA)
  /\ Len(tables) < MaxTables
  /\ LET ops == instruction.Operands
         startAddress == Uint32(ops[1])
         endAddress == Uint32(ops[2])
         paramCount == Uint32(ops[3])
         paramNames == OperandNames(ops, 5, paramCount)
         \* iii := 4 + (ii-1)*2 + 1, 0-based, after the loop over the params
         iii == 4 + (paramCount - 1) * 2 + 1
         capturedVarCount == Uint32(ops[iii + 1])
         capturedVars == OperandNames(ops, iii + 3, capturedVarCount)
     IN IF Len(ops) < 4
        THEN Fail("CREATE_LAMBDA instruction requires at least 4 operands")
             /\ UNCHANGED <<stack, pc, tables>>
        ELSE IF startAddress \notin DOMAIN offsetMap
        THEN Fail("Invalid start address for lambda") /\ UNCHANGED <<stack, pc, tables>>
        ELSE IF endAddress \notin DOMAIN offsetMap
        THEN Fail("Invalid end address for lambda") /\ UNCHANGED <<stack, pc, tables>>
        ELSE IF ~NamesValid(ops, 5, paramCount)
        THEN Fail("Invalid or missing param name in CREATE_LAMBDA instruction")
             /\ UNCHANGED <<stack, pc, tables>>
        ELSE IF ~NamesValid(ops, iii + 3, capturedVarCount)
        THEN Fail("Invalid or missing captured var name in CREATE_LAMBDA instruction")
             /\ UNCHANGED <<stack, pc, tables>>
        ELSE IF Len(symbolTableStack) = 0
        THEN Panic("index out of range") /\ UNCHANGED <<stack, pc, tables>>
        ELSE LET currentSymbolTable == Top(symbolTableStack)
             IN IF \E k \in 1..capturedVarCount :
                     ~Get(tables, currentSymbolTable, capturedVars[k]).exists
                THEN Fail("Captured variable not found in the current scope")
                     /\ UNCHANGED <<stack, pc, tables>>
                ELSE /\ tables' = Append(tables,
                          RuntimeSymbolTable(Capture(EmptyMap, currentSymbolTable, capturedVars),
                                             0, "closure",
                                             [start |-> offsetMap[startAddress],
                                              end |-> offsetMap[endAddress]]))
                     /\ stack' = Append(stack, LambdaV(
                          [StartAddress |-> offsetMap[startAddress],
                           EndAddress |-> offsetMap[endAddress],
                           ParamCount |-> paramCount,
                           ParamNames |-> paramNames,
                           CapturedVars |-> capturedVars,
                           SymbolTable |-> Len(tables) + 1]))
                     /\ pc' = pc + 1
                     /\ UNCHANGED <<status, err>>
  /\ UNCHANGED <<input, symbolTableStack, functions, callStack, runs, out>>

\* CALL_LAMBDA up to and including the entry into vm.Run(start, end); depth
\* records the stack depth the handler found
Run_CALL_LAMBDA ==
  /\ At(CALL_LAMBDA)
  /\ Len(tables) < MaxTables
  /\ LET numArgs == Uint32(instruction.Operands[1])
     IN IF Len(stack) < numArgs
        THEN /\ Fail("stack underflow: cannot pop from an empty stack")
             /\ stack' = <<>>
             /\ UNCHANGED <<pc, tables, symbolTableStack, runs>>
        ELSE IF Len(stack) = numArgs \/ stack[Len(stack) - numArgs].t # "lambda"
        THEN /\ Fail("Expected a lambda function on the stack")
             /\ stack' = Pop(stack, IF Len(stack) < numArgs + 1 THEN Len(stack) ELSE numArgs + 1)
             /\ UNCHANGED <<pc, tables, symbolTableStack, runs>>
        ELSE LET args == SubSeqFrom(stack, Len(stack) - numArgs + 1)
                 lambdaFunc == stack[Len(stack) - numArgs].fn
             IN /\ stack' = Pop(stack, numArgs + 1)
                /\ IF Len(lambdaFunc.ParamNames) > numArgs
                   THEN Panic("index out of range")
                        /\ UNCHANGED <<pc, tables, symbolTableStack, runs>>
                   ELSE /\ tables' = Append(tables,
                             RuntimeSymbolTable(BindParams(EmptyMap, lambdaFunc.ParamNames, args),
                                                lambdaFunc.SymbolTable, "lambda",
                                                [start |-> lambdaFunc.StartAddress,
                                                 end |-> lambdaFunc.EndAddress]))
                        /\ symbolTableStack' = Append(symbolTableStack, Len(tables) + 1)
                        /\ runs' = Append(runs, [kind |-> "CALL_LAMBDA",
                                                 end |-> lambdaFunc.EndAddress,
                                                 returnAddress |-> pc,
                                                 numArgs |-> numArgs,
                                                 depth |-> Len(stack),
                                                 below |-> Pop(stack, numArgs + 1)])
                        /\ pc' = lambdaFunc.StartAddress
                        /\ UNCHANGED <<status, err>>
  /\ UNCHANGED <<input, functions, callStack, out>>

\* CALL_LAMBDA after vm.Run(start, end) has returned nil, and the loop's
\* post statement
Return_CALL_LAMBDA ==
  /\ status = "running"
  /\ pc >= Top(runs).end
  /\ Top(runs).kind = "CALL_LAMBDA"
  /\ IF Len(stack) = 0 \/ Len(symbolTableStack) = 0
     THEN Panic("index out of range")
          /\ UNCHANGED <<stack, pc, symbolTableStack, runs>>
     ELSE /\ stack' = Append(stack, Top(stack))
          /\ pc' = Top(runs).returnAddress + 1
          /\ symbolTableStack' = Pop(symbolTableStack, 1)
          /\ runs' = Pop(runs, 1)
          /\ UNCHANGED <<status, err>>
  /\ UNCHANGED <<input, functions, callStack, tables, out>>

\* a search that starts at the bottom of symbolTableStack
Lookup_outermost(varName) ==
  IF \E i \in 1..Len(symbolTableStack) : varName \in DOMAIN tables[symbolTableStack[i]].symbols
  THEN CHOOSE i \in 1..Len(symbolTableStack) :
         /\ varName \in DOMAIN tables[symbolTableStack[i]].symbols
         /\ \A k \in 1..(i - 1) : varName \notin DOMAIN tables[symbolTableStack[k]].symbols
  ELSE 0
\* the index in symbolTableStack of the innermost table whose own symbols
\* hold the name, 0 if there is none
Lookup(varName) ==
  IF \E i \in 1..Len(symbolTableStack) : varName \in DOMAIN tables[symbolTableStack[i]].symbols
  THEN CHOOSE i \in 1..Len(symbolTableStack) :
         /\ varName \in DOMAIN tables[symbolTableStack[i]].symbols
         /\ \A k \in (i + 1)..Len(symbolTableStack) :
              varName \notin DOMAIN tables[symbolTableStack[k]].symbols
  ELSE 0
Run_PUSH_VARIABLE ==
  /\ At(PUSH_VARIABLE)
  /\ IF Len(instruction.Operands[1]) # 4
     THEN Fail("Invalid or missing length for variable name in PUSH_VARIABLE instruction")
          /\ UNCHANGED <<stack, pc>>
     ELSE IF Len(instruction.Operands[2]) # Uint32(instruction.Operands[1])
     THEN Fail("Invalid or missing variable name in PUSH_VARIABLE instruction")
          /\ UNCHANGED <<stack, pc>>
     ELSE LET varName == BytesToString(instruction.Operands[2])
          IN IF Lookup(varName) = 0
             THEN Fail("Variable not found") /\ UNCHANGED <<stack, pc>>
             ELSE /\ stack' = Append(stack,
                                     tables[symbolTableStack[Lookup(varName)]].symbols[varName])
                  /\ pc' = pc + 1
                  /\ UNCHANGED <<status, err>>
  /\ UNCHANGED <<input, symbolTableStack, functions, callStack, tables, runs, out>>

Run_DEFINE_FUNCTION ==
  /\ At(DEFINE_FUNCTION)
  /\ LET ops == instruction.Operands
         funcName == BytesToString(ops[1])
     IN IF Len(ops[2]) # 4
        THEN Fail("Invalid or missing start address in DEFINE_FUNCTION instruction")
             /\ UNCHANGED <<pc, functions>>
        ELSE IF Len(ops[3]) # 4
        THEN Fail("Invalid or missing parameter count in DEFINE_FUNCTION instruction")
             /\ UNCHANGED <<pc, functions>>
        ELSE IF Len(ops) > 3 /\ Len(ops[4]) # 4
        THEN Fail("Invalid or missing length of parameter list in DEFINE_FUNCTION instruction")
             /\ UNCHANGED <<pc, functions>>
        ELSE IF Len(ops) > 3 /\ ~NamesValid(ops, 6, Uint32(ops[4]))
        THEN Fail("Invalid or missing parameter name in DEFINE_FUNCTION instruction")
             /\ UNCHANGED <<pc, functions>>
        ELSE /\ functions' =
                  (funcName :> [StartAddress |-> Uint32(ops[2]) + 1,
                                ParamCount |-> Uint32(ops[3]),
                                ParamNames |-> IF Len(ops) > 3
                                               THEN OperandNames(ops, 6, Uint32(ops[4]))
                                               ELSE <<>>]) @@ functions
             /\ pc' = pc + 1
             /\ UNCHANGED <<status, err>>
  /\ UNCHANGED <<input, stack, symbolTableStack, callStack, tables, runs, out>>

\* CALL_FUNCTION ends in continue, and so does RETURN: the loop's post
\* statement vm.pc++ runs after vm.pc has been set.  depth, argCount,
\* funcName and frame (the table made for the call) in the call stack entry
\* record the call and are not read by the machine.
Run_CALL_FUNCTION ==
  /\ At(CALL_FUNCTION)
  /\ Len(tables) < MaxTables
  /\ LET ops == instruction.Operands
         funcName == BytesToString(ops[2])
     IN IF Len(ops[1]) # 4
        THEN Fail("Invalid length for function name length in CALL_FUNCTION instruction")
             /\ UNCHANGED <<stack, pc, tables, symbolTableStack, callStack>>
        ELSE IF Len(ops[2]) # Uint32(ops[1])
        THEN Fail("Invalid or missing function name in CALL_FUNCTION instruction")
             /\ UNCHANGED <<stack, pc, tables, symbolTableStack, callStack>>
        ELSE IF funcName \notin DOMAIN functions
        THEN Fail("Function not defined")
             /\ UNCHANGED <<stack, pc, tables, symbolTableStack, callStack>>
        ELSE LET functionMetadata == functions[funcName]
                 argCount == functionMetadata.ParamCount
             IN IF Len(stack) < argCount
                THEN Fail("Not enough arguments on stack for function")
                     /\ UNCHANGED <<stack, pc, tables, symbolTableStack, callStack>>
                ELSE IF Len(symbolTableStack) = 0
                THEN Panic("index out of range")
                     /\ stack' = Pop(stack, argCount)
                     /\ UNCHANGED <<pc, tables, symbolTableStack, callStack>>
                ELSE /\ stack' = Pop(stack, argCount)
                     /\ tables' = Append(tables,
                          RuntimeSymbolTable(
                            BindParams(EmptyMap, functionMetadata.ParamNames,
                                       SubSeqFrom(stack, Len(stack) - argCount + 1)),
                            Top(symbolTableStack), "function", funcName))
                     /\ callStack' = Append(callStack,
                          [returnAddress |-> pc, symbolTable |-> Top(symbolTableStack),
                           depth |-> Len(stack), argCount |-> argCount,
                           funcName |-> funcName, frame |-> Len(tables) + 1])
                     /\ symbolTableStack' = Append(symbolTableStack, Len(tables) + 1)
                     /\ pc' = functionMetadata.StartAddress + 1
                     /\ UNCHANGED <<status, err>>
  /\ UNCHANGED <<input, functions, runs, out>>

\* a RETURN that leaves the frame of the call on the symbol table stack
Run_RETURN_keepsFrame ==
  /\ At(RETURN)
  /\ callStack # <<>> /\ stack # <<>>
  /\ callStack' = Pop(callStack, 1)
  /\ pc' = Top(callStack).returnAddress + 1
  /\ UNCHANGED <<input, stack, symbolTableStack, functions, tables, runs, status, err, out>>
Run_RETURN ==
  /\ At(RETURN)
  /\ IF Len(callStack) = 0
     THEN Fail("Call stack is empty on return")
          /\ UNCHANGED <<stack, pc, symbolTableStack, callStack>>
     ELSE IF Len(stack) = 0
     THEN Fail("No return value found on the stack")
          /\ UNCHANGED <<stack, pc, symbolTableStack, callStack>>
     ELSE IF Len(symbolTableStack) = 0
     THEN /\ Panic("slice bounds out of range")
          /\ stack' = Pop(stack, 1)
          /\ callStack' = Pop(callStack, 1)
          /\ UNCHANGED <<pc, symbolTableStack>>
     ELSE /\ callStack' = Pop(callStack, 1)
          /\ pc' = Top(callStack).returnAddress + 1
          /\ symbolTableStack' = Pop(symbolTableStack, 1)
          /\ stack' = stack
          /\ UNCHANGED <<status, err>>
  /\ UNCHANGED <<input, functions, tables, runs, out>>

Run_JUMP ==
  /\ At(JUMP)
  /\ IF Len(instruction.Operands) < 1
     THEN Fail("JUMP instruction requires an operand") /\ UNCHANGED pc
     ELSE IF Len(instruction.Operands[1]) # 4
     THEN Fail("Invalid operand for JUMP instruction") /\ UNCHANGED pc
     ELSE LET jumpOffset == Uint32(instruction.Operands[1])
          IN IF pc + jumpOffset >= Len(code)
             THEN Fail("Jump leads to invalid instruction index") /\ pc' = pc + jumpOffset
             ELSE pc' = pc + jumpOffset + 1 /\ UNCHANGED <<status, err>>
  /\ UNCHANGED <<input, stack, symbolTableStack, functions, callStack, tables, runs, out>>

\* a search that starts at the first instruction of the code
jumpToOpcode_fromStart(targetOpcode) ==
  IF \E i \in 0..(Len(code) - 1) : code[i + 1].Opcode = targetOpcode
  THEN CHOOSE i \in 0..(Len(code) - 1) :
         /\ code[i + 1].Opcode = targetOpcode
         /\ \A k \in 0..(i - 1) : code[k + 1].Opcode # targetOpcode
  ELSE pc
\* jumpToOpcode: the first instruction after vm.pc with the opcode, whatever
\* construct it belongs to; vm.pc stays if there is none
jumpToOpcode(targetOpcode) ==
  IF \E i \in (pc + 1)..(Len(code) - 1) : code[i + 1].Opcode = targetOpcode
  THEN CHOOSE i \in (pc + 1)..(Len(code) - 1) :
         /\ code[i + 1].Opcode = targetOpcode
         /\ \A k \in (pc + 1)..(i - 1) : code[k + 1].Opcode # targetOpcode
  ELSE pc
Run_IF ==
  /\ At(OP_IF)
  /\ IF Len(stack) < 1
     THEN Fail("IF instruction requires a condition value on the stack")
          /\ UNCHANGED <<stack, pc>>
     ELSE IF Top(stack).t # "bool"
     THEN Fail("IF instruction requires a boolean condition value on the stack")
          /\ UNCHANGED <<stack, pc>>
     ELSE /\ stack' = Pop(stack, 1)
          /\ pc' = IF ~Top(stack).bool THEN jumpToOpcode(OP_ELSE) + 1 ELSE pc + 1
          /\ UNCHANGED <<status, err>>
  /\ UNCHANGED <<input, symbolTableStack, functions, callStack, tables, runs, out>>
Run_ELSE ==
  /\ At(OP_ELSE)
  /\ pc' = jumpToOpcode(ENDIF) + 1
  /\ UNCHANGED <<input, stack, symbolTableStack, functions, callStack, tables, runs,
                 status, err, out>>
Run_ENDIF ==
  /\ At(ENDIF)
  /\ pc' = pc + 1
  /\ UNCHANGED <<input, stack, symbolTableStack, functions, callStack, tables, runs,
                 status, err, out>>

\* executeLambda up to and including the entry into vm.Run(start, end);
\* stack1, symbolTableStack1 and runs1 are what its caller has made of the
\* stack, the symbol table stack and the pending handlers (the caller's own
\* frame on top), wrap is the error the caller returns
executeLambda(lambdaFunc, args, stack1, symbolTableStack1, runs1, wrap) ==
  /\ stack' = stack1
  /\ IF Len(args) # lambdaFunc.ParamCount
     THEN /\ Fail(wrap)
          /\ symbolTableStack' = symbolTableStack1
          /\ UNCHANGED <<pc, tables, runs>>
     ELSE /\ tables' = Append(tables,
               RuntimeSymbolTable(BindParams(EmptyMap, lambdaFunc.ParamNames, args),
                                  lambdaFunc.SymbolTable, "lambda",
                                  [start |-> lambdaFunc.StartAddress,
                                   end |-> lambdaFunc.EndAddress]))
          /\ symbolTableStack' = Append(symbolTableStack1, Len(tables) + 1)
          /\ runs' = runs1
          /\ pc' = lambdaFunc.StartAddress
          /\ UNCHANGED <<status, err>>
\* an executeLambda that loses the value the body left
returnValue_nil == NilV
\* executeLambda after vm.Run(start, end) has returned nil: the value it returns
returnValue == IF Len(stack) > 0 THEN Top(stack) ELSE NilV
\* the stack it leaves
stackAfterLambda == IF Len(stack) > 0 THEN Pop(stack, 1) ELSE stack

\* MAP up to and including the first executeLambda's entry into vm.Run; below
\* records the stack under the lambda and plays no part in the execution
Run_MAP ==
  /\ At(MAP)
  /\ Len(tables) < MaxTables
  /\ LET numArgs == Uint32(instruction.Operands[1])
     IN IF Len(stack) <= numArgs
        THEN /\ Fail("error executing MAP: stack underflow: cannot pop from an empty stack")
             /\ stack' = <<>>
             /\ UNCHANGED <<pc, tables, symbolTableStack, runs>>
        ELSE IF stack[Len(stack) - numArgs].t # "lambda"
        THEN /\ Fail("error executing MAP: expected a lambda function")
             /\ stack' = Pop(stack, numArgs + 1)
             /\ UNCHANGED <<pc, tables, symbolTableStack, runs>>
        ELSE LET args == SubSeqFrom(stack, Len(stack) - numArgs + 1)
                 lambdaFunc == stack[Len(stack) - numArgs].fn
             IN IF numArgs = 0
                THEN /\ stack' = Append(Pop(stack, 1), ListV(<<>>))
                     /\ pc' = pc + 1
                     /\ UNCHANGED <<status, err, tables, symbolTableStack, runs>>
                ELSE executeLambda(lambdaFunc, <<args[1]>>, Pop(stack, numArgs + 1),
                       symbolTableStack,
                       Append(runs, [kind |-> "MAP", end |-> lambdaFunc.EndAddress,
                                     savedPC |-> pc, lambdaFunc |-> lambdaFunc,
                                     args |-> args, i |-> 1, results |-> <<>>,
                                     below |-> Pop(stack, numArgs + 1)]),
                       "error executing MAP with lambda")
  /\ UNCHANGED <<input, functions, callStack, out>>

\* MAP from the return of an executeLambda's vm.Run to the entry into the
\* next one's or, after the last argument, to the end of the handler
Return_MAP ==
  /\ status = "running"
  /\ pc >= Top(runs).end
  /\ Top(runs).kind = "MAP"
  /\ LET r == Top(runs)
         results == Append(r.results, returnValue)
     IN IF Len(symbolTableStack) = 0
        THEN /\ Panic("slice bounds out of range")
             /\ stack' = stackAfterLambda
             /\ UNCHANGED <<pc, tables, symbolTableStack, runs>>
        ELSE IF r.i < Len(r.args)
        THEN /\ Len(tables) < MaxTables
             /\ executeLambda(r.lambdaFunc, <<r.args[r.i + 1]>>, stackAfterLambda,
                  Pop(symbolTableStack, 1),
                  [runs EXCEPT ![Len(runs)].i = r.i + 1, ![Len(runs)].results = results],
                  "error executing MAP with lambda")
        ELSE /\ stack' = Append(stackAfterLambda, ListV(results))
             /\ pc' = r.savedPC + 1
             /\ symbolTableStack' = Pop(symbolTableStack, 1)
             /\ runs' = Pop(runs, 1)
             /\ UNCHANGED <<status, err, tables>>
  /\ UNCHANGED <<input, functions, callStack, out>>

Reverse(s) == [k \in 1..Len(s) |-> s[Len(s) - k + 1]]
\* filteredResults after the result of the call on arg
filtered(filteredResults, arg, result) ==
  IF result.t = "bool" /\ result.bool THEN Append(filteredResults, arg) ELSE filteredResults

\* FILTER up to and including the first executeLambda's entry into vm.Run;
\* args is in the order of the pops, last pushed first, and the loop over it
\* runs from its last index down (i is the 1-based index); below records the
\* stack under the lambda and verdict what each call has returned, and
\* neither plays a part in the execution
Run_FILTER ==
  /\ At(FILTER)
  /\ Len(tables) < MaxTables
  /\ LET numArgs == Uint32(instruction.Operands[1])
     IN IF Len(stack) < numArgs
        THEN /\ Fail("stack underflow: cannot pop from an empty stack")
             /\ stack' = <<>>
             /\ UNCHANGED <<pc, tables, symbolTableStack, runs>>
        ELSE IF Len(stack) = numArgs
        THEN /\ Fail("error executing FILTER: stack underflow: cannot pop from an empty stack")
             /\ stack' = <<>>
             /\ UNCHANGED <<pc, tables, symbolTableStack, runs>>
        ELSE IF stack[Len(stack) - numArgs].t # "lambda"
        THEN /\ Fail("error executing FILTER: expected a lambda function")
             /\ stack' = Pop(stack, numArgs + 1)
             /\ UNCHANGED <<pc, tables, symbolTableStack, runs>>
        ELSE LET args == Reverse(SubSeqFrom(stack, Len(stack) - numArgs + 1))
                 lambdaFunc == stack[Len(stack) - numArgs].fn
             IN IF numArgs = 0
                THEN /\ stack' = Append(Pop(stack, 1), ListV(<<>>))
                     /\ pc' = pc + 1
                     /\ UNCHANGED <<status, err, tables, symbolTableStack, runs>>
                ELSE executeLambda(lambdaFunc, <<args[numArgs]>>, Pop(stack, numArgs + 1),
                       symbolTableStack,
                       Append(runs, [kind |-> "FILTER", end |-> lambdaFunc.EndAddress,
                                     savedPC |-> pc, lambdaFunc |-> lambdaFunc,
                                     args |-> args, i |-> numArgs,
                                     filteredResults |-> <<>>,
                                     below |-> Pop(stack, numArgs + 1),
                                     verdict |-> EmptyMap]),
                       "lambda function expected a different number of arguments")
  /\ UNCHANGED <<input, functions, callStack, out>>

\* FILTER from the return of an executeLambda's vm.Run to the entry into the
\* next one's or, after the last argument, to the end of the handler
Return_FILTER ==
  /\ status = "running"
  /\ pc >= Top(runs).end
  /\ Top(runs).kind = "FILTER"
  /\ LET r == Top(runs)
         filteredResults == filtered(r.filteredResults, r.args[r.i], returnValue)
     IN IF Len(symbolTableStack) = 0
        THEN /\ Panic("slice bounds out of range")
             /\ stack' = stackAfterLambda
             /\ UNCHANGED <<pc, tables, symbolTableStack, runs>>
        ELSE IF r.i > 1
        THEN /\ Len(tables) < MaxTables
             /\ executeLambda(r.lambdaFunc, <<r.args[r.i - 1]>>, stackAfterLambda,
                  Pop(symbolTableStack, 1),
                  [runs EXCEPT ![Len(runs)].i = r.i - 1,
                               ![Len(runs)].filteredResults = filteredResults,
                               ![Len(runs)].verdict = (r.i :> returnValue) @@ @],
                  "lambda function expected a different number of arguments")
        ELSE /\ stack' = Append(stackAfterLambda, ListV(filteredResults))
             /\ pc' = r.savedPC + 1
             /\ symbolTableStack' = Pop(symbolTableStack, 1)
             /\ runs' = Pop(runs, 1)
             /\ UNCHANGED <<status, err, tables>>
  /\ UNCHANGED <<input, functions, callStack, out>>

\* the main Run has run off its end: "All instructions executed"
RunReturns ==
  /\ status = "running"
  /\ pc >= runs[Len(runs)].end
  /\ runs[Len(runs)].kind = "Run"
  /\ status' = "done"
  /\ UNCHANGED <<stack, pc, input, symbolTableStack, functions, callStack, tables, runs,
                 err, out>>

Next ==
  \/ Run_PUSH_NUMBER
  \/ Run_PUSH_BOOL
  \/ Run_PUSH_STRING
  \/ Run_ADD
  \/ Run_SUB
  \/ Run_MUL
  \/ Run_GRT
  \/ Run_LESS
  \/ Run_EQ
  \/ Run_NEQ
  \/ Run_PRINT
  \/ Run_DEFINE_VARIABLE
  \/ Run_CREATE_LAMBDA
  \/ Run_CALL_LAMBDA
  \/ Return_CALL_LAMBDA
  \/ Run_PUSH_VARIABLE
  \/ Run_DEFINE_FUNCTION
  \/ Run_CALL_FUNCTION
  \/ Run_RETURN
  \/ Run_MAP
  \/ Return_MAP
  \/ Run_FILTER
  \/ Return_FILTER
  \/ Run_JUMP
  \/ Run_IF
  \/ Run_ELSE
  \/ Run_ENDIF
  \/ RunReturns
Spec == Init /\ [][Next]_vars
\* the loop of VM.Run takes its next step as long as there is one
FairSpec == Spec /\ WF_vars(Next)

\* main (goo.go): the exit code of the process once the pipeline has ended.
\* main prints a compile error and returns, prints a runtime error and falls
\* off its end, and calls os.Exit only for a bad command line or an
\* unreadable file; a Go run-time panic ends the process with code 2.
exitCode == IF status = "panic" THEN 2 ELSE 0

(***************************************************************************)
(* Properties.                                                             *)
(***************************************************************************)
ImmutableRebinding == "Variable is immutable and has already been defined"
NoValueOnStack == "No value on stack to assign to variable"
InvalidJump == "Jump leads to invalid instruction index"
\* the name operand of the PUSH_VARIABLE or DEFINE_VARIABLE at vm.pc
varNameAt == BytesToString(instruction.Operands[2])
innermost == Top(symbolTableStack)
\* DEFINE_VARIABLE is about to execute for a name bound in the innermost frame
DefineBound ==
  /\ At(DEFINE_VARIABLE)
  /\ symbolTableStack # <<>>
  /\ varNameAt \in DOMAIN tables[innermost].symbols
\* a step keeps every binding of every frame
BindingsKept ==
  \A id \in 1..Len(tables) : \A n \in DOMAIN tables[id].symbols :
    /\ id <= Len(tables')
    /\ n \in DOMAIN tables'[id].symbols
    /\ tables'[id].symbols[n] = tables[id].symbols[n]

\* C1 as stated: a DEFINE_VARIABLE for a name bound in the innermost frame
\* always aborts with the immutable-rebinding error, and no step changes a
\* binding.
C1_AsClaimed ==
  [][/\ DefineBound => (status' = "error" /\ err' = ImmutableRebinding)
     /\ BindingsKept]_vars
\* C1 amended: a DEFINE_VARIABLE for a name bound in the innermost frame
\* aborts, with the immutable-rebinding error when there is a value on the
\* stack and with the no-value error when the stack is empty; no step changes
\* a binding.
C1_ImmutableBinding ==
  [][/\ DefineBound =>
          /\ status' = "error"
          /\ err' = IF stack = <<>> THEN NoValueOnStack ELSE ImmutableRebinding
     /\ BindingsKept]_vars
\* the second let of P_LetTwice has aborted and x is still 1
C1_Rebinding ==
  /\ Programs[prog] = P_LetTwice
  /\ status = "error"
  /\ err = ImmutableRebinding
  /\ tables[1].symbols = ("x" :> NumV(1))

\* the innermost frame is that of an invocation of a lambda whose body vm.pc
\* is in
InLambdaBody ==
  /\ symbolTableStack # <<>>
  /\ tables[innermost].kind = "lambda"
  /\ tables[innermost].owner.start <= pc
  /\ pc < tables[innermost].owner.end
\* the closure environment of the lambda invoked in the innermost frame
capturedEnv == tables[tables[innermost].parent].symbols
\* C2: in an invocation of a lambda, a reference to a name that the lambda
\* captured at CREATE_LAMBDA (and that is not a parameter) does not fail and
\* reads the captured value.
C2_ClosureCapture ==
  [][(/\ At(PUSH_VARIABLE)
      /\ InLambdaBody
      /\ varNameAt \notin DOMAIN tables[innermost].symbols
      /\ varNameAt \in DOMAIN capturedEnv)
     => (status' = "running" /\ stack' = Append(stack, capturedEnv[varNameAt]))]_vars

\* the frame t is the innermost frame, the global frame, or the frame of a
\* lambda whose body holds the body of the lambda of the innermost frame
LexicallyVisible(t) ==
  \/ t = innermost
  \/ tables[t].kind = "global"
  \/ /\ tables[t].kind = "lambda"
     /\ tables[innermost].kind = "lambda"
     /\ tables[t].owner.start <= tables[innermost].owner.start
     /\ tables[innermost].owner.end <= tables[t].owner.end
\* C3: while the body of a function or lambda executes, a variable reference
\* never yields a binding of a calling activation that does not lexically
\* enclose the callee.
C3_LexicalScoping ==
  [][(/\ At(PUSH_VARIABLE)
      /\ symbolTableStack # <<>>
      /\ tables[innermost].kind \in {"lambda", "function"}
      /\ Lookup(varNameAt) # 0)
     => LexicallyVisible(symbolTableStack[Lookup(varNameAt)])]_vars

\* the JUMP at index j brackets the body of the function that the
\* DEFINE_FUNCTION at index d defines
FunctionJump(j, d) ==
  /\ code[d + 1].Opcode = DEFINE_FUNCTION
  /\ code[j + 1].Opcode = JUMP
  /\ Uint32(code[d + 1].Operands[2]) \in DOMAIN offsetMap
  /\ offsetMap[Uint32(code[d + 1].Operands[2])] = j
\* C4: from the JUMP that brackets a function body top-level execution goes
\* to the function's DEFINE_FUNCTION, and top-level execution is never at an
\* instruction of a function body.
C4_FunctionBodySkipped ==
  [][\A d \in 0..(Len(code) - 1) : \A j \in 0..(Len(code) - 1) :
       (Running /\ callStack = <<>> /\ Len(runs) = 1 /\ FunctionJump(j, d))
       => /\ pc = j => (status' = "running" /\ pc' = d)
          /\ ~(j < pc /\ pc < d)]_vars

\* C5: every JUMP of a compiled program leads to an index of the instruction
\* list, and the VM never reports an invalid jump target.
C5_JumpsInside ==
  status # "compile error" =>
    /\ \A j \in 0..(Len(code) - 1) :
         code[j + 1].Opcode = JUMP => j + Uint32(code[j + 1].Operands[1]) + 1 < Len(code)
    /\ err # InvalidJump

\* C6: after a RETURN that succeeds the stack depth is the depth before the
\* matching CALL_FUNCTION minus the argument count plus 1.
C6_CallDepth ==
  [][(At(RETURN) /\ status' = "running")
     => Len(stack') = Top(callStack).depth - Top(callStack).argCount + 1]_vars

\* C7: after a CALL_LAMBDA that succeeds the stack depth is the depth before
\* the lambda and its arguments were pushed plus 1.
C7_LambdaCallDepth ==
  [][(status = "running" /\ pc >= Top(runs).end /\ Top(runs).kind = "CALL_LAMBDA"
      /\ status' = "running")
     => Len(stack') = Top(runs).depth - (Top(runs).numArgs + 1) + 1]_vars

\* C8: MAP(N) replaces the lambda and its N arguments by one list of length
\* N, the results of the invocations in argument order, for every N >= 0.
C8_Map ==
  [][/\ (At(MAP) /\ Uint32(instruction.Operands[1]) = 0 /\ status' = "running")
        => stack' = Append(Pop(stack, 1), ListV(<<>>))
     /\ (status = "running" /\ pc >= Top(runs).end /\ Top(runs).kind = "MAP"
         /\ Top(runs).i = Len(Top(runs).args) /\ status' = "running")
        => /\ stack' = Append(Top(runs).below,
                              ListV(Append(Top(runs).results, returnValue)))
           /\ Len(Top(runs).results) + 1 = Len(Top(runs).args)]_vars

\* the arguments of a FILTER in the order they were pushed, and what the
\* lambda returned for each
pushedArgs(r) == Reverse(r.args)
verdictOf(r, p) == ((r.i :> returnValue) @@ r.verdict)[Len(r.args) + 1 - p]
RECURSIVE keep(_, _)
keep(r, p) ==
  IF p = 0 THEN <<>>
  ELSE IF verdictOf(r, p) = BoolV(TRUE) THEN Append(keep(r, p - 1), pushedArgs(r)[p])
  ELSE keep(r, p - 1)
\* C9: FILTER(N) replaces the lambda and its N arguments by the list of the
\* arguments for which the lambda returned true, in the order they were
\* pushed.
C9_Filter ==
  [][/\ (At(FILTER) /\ Uint32(instruction.Operands[1]) = 0 /\ status' = "running")
        => stack' = Append(Pop(stack, 1), ListV(<<>>))
     /\ (status = "running" /\ pc >= Top(runs).end /\ Top(runs).kind = "FILTER"
         /\ Top(runs).i = 1 /\ status' = "running")
        => stack' = Append(Top(runs).below,
                           ListV(keep(Top(runs), Len(Top(runs).args))))]_vars

\* C10: S4 ends without error and has printed 120 and nothing else.
C10_Factorial ==
  (Programs[prog] = P_S4 /\ status # "running") => (status = "done" /\ out = <<NumV(120)>>)

\* C11: scenario S6, (print (map ((x:int) -> (* x 2)) (1 2 3 4 5))), ends
\* without error, and its only PRINT output is the list [2 4 6 8 10].
S6_Output == <<ListV(<<NumV(2), NumV(4), NumV(6), NumV(8), NumV(10)>>)>>
C11_MapScenario ==
  /\ [](Programs[prog] = P_S6 => /\ status \in {"running", "done"}
                                 /\ out \in {<<>>, S6_Output})
  /\ (Programs[prog] = P_S6) => <>[](status = "done" /\ out = S6_Output)
\* S6 has run to its end and printed the list
C11_Printed == Programs[prog] = P_S6 /\ status = "done" /\ out = S6_Output

\* C12: VM execution ends, and it ends either at the end of the top-level
\* instruction stream or with a runtime error that Run returns; it never ends
\* in a Go run-time panic and never runs forever.
C12_EndsAsDocumented ==
  /\ [](status \in {"compile error", "running", "done", "error"})
  /\ <>(status # "running")

\* C13: once the pipeline has ended, the driver's exit code is 0 exactly when
\* compilation and execution both succeeded (the programs are well-parsed
\* ASTs, so parsing has succeeded).
C13_ExitCode == status # "running" => (exitCode = 0 <=> status = "done")

\* the compiler after CompileASTByte on the program at hand
compiled == CompileASTByte(Programs[prog], perm)
\* C14: the encoder, the decoder and the width table of
\* calculateCorrectedOffset split the emitted byte stream into the same
\* instructions: the k-th emit starts at the offset where the decoder starts
\* its k-th instruction, and the width table counts, up to each offset where
\* the decoder starts an instruction and up to the end of the stream, as many
\* instructions as the decoder has decoded there.
C14_SameInstructions ==
  status # "compile error" =>
    LET bytecode == compiled.bytecode
    IN /\ Len(compiled.emitted) = Len(code)
       /\ \A k \in 1..Len(compiled.emitted) :
            /\ compiled.emitted[k] \in DOMAIN offsetMap
            /\ offsetMap[compiled.emitted[k]] = k - 1
       /\ \A b \in DOMAIN offsetMap :
            calculateCorrectedOffset(SubSeq(bytecode, 1, b), b) = offsetMap[b]
       /\ calculateCorrectedOffset(bytecode, Len(bytecode)) = Len(code)

\* C15: encoding the decoded instruction records of a compiled program again
\* gives the emitted byte stream, byte for byte.
C15_RoundTrip == status # "compile error" => encodeRecords(code) = compiled.bytecode

\* the CALL_FUNCTION at vm.pc has succeeded: a call-stack entry was pushed
Called == At(CALL_FUNCTION) /\ Len(callStack') = Len(callStack) + 1
\* C16: the first instruction executed after a successful CALL_FUNCTION is
\* the one right after the JUMP that brackets the body of the called function.
C16_FunctionEntry ==
  [][Called =>
       \E d, j \in 0..(Len(code) - 1) :
         /\ FunctionJump(j, d)
         /\ code[d + 1].Operands[1] = instruction.Operands[2]
         /\ status' = "running"
         /\ pc' = j + 1]_vars

Balanced(i, j) ==
  Cardinality({k \in (i + 1)..(j - 1) : code[k + 1].Opcode = OP_IF})
    = Cardinality({k \in (i + 1)..(j - 1) : code[k + 1].Opcode = ENDIF})
\* the ENDIF of the statement whose IF or ELSE is at index i
ownEndif(i) ==
  CHOOSE j \in (i + 1)..(Len(code) - 1) :
    /\ code[j + 1].Opcode = ENDIF
    /\ Balanced(i, j)
    /\ \A k \in (i + 1)..(j - 1) : ~(code[k + 1].Opcode = ENDIF /\ Balanced(i, k))
\* the ELSE of the statement whose IF is at index i, if it has one
ownElses(i) ==
  {j \in (i + 1)..(ownEndif(i) - 1) : code[j + 1].Opcode = OP_ELSE /\ Balanced(i, j)}
\* the IF at vm.pc is about to pop false
IfFalse == At(OP_IF) /\ stack # <<>> /\ Top(stack).t = "bool" /\ ~Top(stack).bool
\* C19: when IF pops false for a statement without an else-block, execution
\* continues at or right after the statement's own ENDIF, so that none of the
\* then-block executes.
C19_IfWithoutElse ==
  [][(IfFalse /\ ownElses(pc) = {}) =>
       /\ status' = "running"
       /\ pc' \in {ownEndif(pc), ownEndif(pc) + 1}]_vars

\* C20: when IF pops false for a statement with an else-block, execution
\* continues at the first instruction of that statement's own else-block;
\* when an ELSE is reached at the end of a then-block, execution continues at
\* or right after the ENDIF of the statement that the ELSE belongs to.
C20_NestedIf ==
  [][/\ (IfFalse /\ ownElses(pc) # {}) =>
          /\ status' = "running"
          /\ \E e \in ownElses(pc) : pc' = e + 1
     /\ At(OP_ELSE) =>
          /\ status' = "running"
          /\ pc' \in {ownEndif(pc), ownEndif(pc) + 1}]_vars

\* C21: DEFINE_VARIABLE with a value on the stack binds a name that the
\* innermost frame itself does not bind, whatever the outer frames bind, and
\* PUSH_VARIABLE of a name bound in the innermost frame yields that binding.
C21_Shadowing ==
  [][/\ (/\ At(DEFINE_VARIABLE)
         /\ stack # <<>>
         /\ symbolTableStack # <<>>
         /\ varNameAt \notin DOMAIN tables[innermost].symbols)
        => /\ status' = "running"
           /\ varNameAt \in DOMAIN tables'[innermost].symbols
           /\ tables'[innermost].symbols[varNameAt] = Top(stack)
     /\ (/\ At(PUSH_VARIABLE)
         /\ symbolTableStack # <<>>
         /\ varNameAt \in DOMAIN tables[innermost].symbols)
        => stack' = Append(stack, tables[innermost].symbols[varNameAt])]_vars

\* a frame active at the call site binds the name at vm.pc to another value
\* than the closure environment of the lambda being executed
BoundOtherwiseAtCallSite ==
  \E i \in 1..(Len(symbolTableStack) - 1) :
    /\ varNameAt \in DOMAIN tables[symbolTableStack[i]].symbols
    /\ tables[symbolTableStack[i]].symbols[varNameAt] # capturedEnv[varNameAt]
\* C22: the frame made for a lambda invocation has the environment that
\* CREATE_LAMBDA snapshotted as its parent, and in the lambda body a reference
\* to a captured name reads the snapshotted value even when a frame active at
\* the call site binds the name to a different value.
C22_CapturedRead ==
  [][/\ (Len(tables') = Len(tables) + 1 /\ tables'[Len(tables')].kind = "lambda")
        => /\ tables'[Len(tables')].parent \in 1..Len(tables)
           /\ tables[tables'[Len(tables')].parent].kind = "closure"
     /\ (/\ At(PUSH_VARIABLE)
         /\ InLambdaBody
         /\ varNameAt \notin DOMAIN tables[innermost].symbols
         /\ varNameAt \in DOMAIN capturedEnv
         /\ BoundOtherwiseAtCallSite)
        => /\ status' = "running"
           /\ stack' = Append(stack, capturedEnv[varNameAt])]_vars

\* the handler at vm.pc (CALL_LAMBDA, MAP or FILTER) finds under its numArgs
\* arguments a lambda that it is about to invoke with given arguments
InvokesLambda(given) ==
  LET numArgs == Uint32(instruction.Operands[1])
  IN /\ Len(stack) > numArgs
     /\ stack[Len(stack) - numArgs].t = "lambda"
     /\ stack[Len(stack) - numArgs].fn.ParamCount # given
\* C23: an invocation of a lambda with a number of arguments other than its
\* parameter count, by CALL_LAMBDA with its numArgs arguments or by MAP or
\* FILTER with one argument, aborts with a runtime error at once, so that no
\* instruction of the body executes.
C23_ArityChecked ==
  [][/\ (At(CALL_LAMBDA) /\ InvokesLambda(Uint32(instruction.Operands[1])))
        => status' = "error"
     /\ ((At(MAP) \/ At(FILTER)) /\ Uint32(instruction.Operands[1]) > 0 /\ InvokesLambda(1))
        => status' = "error"]_vars

\* vm.Run(start, end) has returned nil to the handler that invoked a lambda
LambdaReturns ==
  /\ status = "running"
  /\ pc >= Top(runs).end
  /\ Top(runs).kind \in {"CALL_LAMBDA", "MAP", "FILTER"}
\* the depth of the value stack when the body of that lambda was entered.  For
\* MAP and FILTER this is the depth under the lambda as long as every earlier
\* invocation of the same handler has left exactly one result.
bodyBase ==
  IF Top(runs).kind = "CALL_LAMBDA"
  THEN Top(runs).depth - (Top(runs).numArgs + 1)
  ELSE Len(Top(runs).below)
\* C24: when the body of an invoked lambda has left no result on the value
\* stack the invocation aborts with a runtime error, and an invocation that
\* completes has found exactly one value above the stack the body started
\* with.
C24_OneResult ==
  [][LambdaReturns =>
       /\ Len(stack) <= bodyBase => status' = "error"
       /\ status' = "running" => Len(stack) = bodyBase + 1]_vars

\* the JUMP at index j brackets the body of the lambda that the CREATE_LAMBDA
\* at index c creates: the body is the instructions from j + 1 up to c
LambdaJump(j, c) ==
  /\ code[c + 1].Opcode = CREATE_LAMBDA
  /\ code[j + 1].Opcode = JUMP
  /\ Uint32(code[c + 1].Operands[1]) \in DOMAIN offsetMap
  /\ offsetMap[Uint32(code[c + 1].Operands[1])] = j + 1
  /\ Uint32(code[c + 1].Operands[2]) \in DOMAIN offsetMap
  /\ offsetMap[Uint32(code[c + 1].Operands[2])] = c
\* C25: from the JUMP that brackets a lambda body execution goes to that
\* lambda's CREATE_LAMBDA, and execution is at an instruction of the body
\* only while an invocation of that lambda is active.
C25_LambdaJump ==
  [][\A c \in 0..(Len(code) - 1) : \A j \in 0..(Len(code) - 1) :
       (Running /\ LambdaJump(j, c))
       => /\ pc = j => (status' = "running" /\ pc' = c)
          /\ (j < pc /\ pc < c)
             => \E i \in 1..Len(symbolTableStack) :
                  /\ tables[symbolTableStack[i]].kind = "lambda"
                  /\ tables[symbolTableStack[i]].owner = [start |-> j + 1, end |-> c]]_vars

\* the global scope of the compiler after the program has been compiled
globalScope == compiled.symbolTable[1]
\* the names that the statements of the program bind by let at the top level
topLevelLets ==
  LET items == Programs[prog].Items
  IN {items[i].Items[1].Variable :
        i \in {k \in 1..Len(items) : /\ items[k].k = "List"
                                     /\ items[k].Items # <<>>
                                     /\ items[k].Items[1].k = "TypeAnnotation"}}
\* C26: after a program has been compiled, the enclosing (global) scope
\* resolves as Variables only the names bound there by let, and so none of
\* the parameters of the functions defined in it.
C26_ParamScope ==
  status # "compile error" =>
    /\ Len(compiled.symbolTable) = 1
    /\ \A n \in DOMAIN globalScope :
         globalScope[n].Type = "VariableSymbol" => n \in topLevelLets

\* the identifiers that a node refers to, at any depth and in any kind of
\* node, the parameters of a nested lambda or function inside its body apart
RECURSIVE identifiersIn(_)
identifiersIn(n) ==
  LET all(nodes) == UNION {identifiersIn(nodes[i]) : i \in 1..Len(nodes)}
      names(params) == {params[i].Variable : i \in 1..Len(params)}
  IN CASE n.k = "Identifier" -> {n.Value}
       [] n.k = "List" -> all(n.Items)
       [] n.k = "IfStatement" ->
            identifiersIn(n.Condition) \cup identifiersIn(n.ThenBlock)
              \cup identifiersIn(n.ElseBlock)
       [] n.k = "ReturnStatement" -> identifiersIn(n.ReturnValue)
       [] n.k \in {"LambdaExpression", "FunctionDefinition"} -> all(n.Body) \ names(n.Params)
       [] n.k \in {"LambdaCall", "MapExpression", "FilterExpression"} ->
            identifiersIn(n.Lambda) \cup all(n.Arguments)
       [] OTHER -> {}
\* the names that a node binds by let in the scope it is compiled in
RECURSIVE letsIn(_)
letsIn(n) ==
  CASE n.k = "List" ->
         UNION ({letsIn(n.Items[i]) : i \in 1..Len(n.Items)}
                \cup {IF n.Items # <<>> /\ n.Items[1].k = "TypeAnnotation"
                      THEN {n.Items[1].Variable} ELSE {}})
    [] n.k = "IfStatement" ->
         letsIn(n.Condition) \cup letsIn(n.ThenBlock) \cup letsIn(n.ElseBlock)
    [] n.k = "ReturnStatement" -> letsIn(n.ReturnValue)
    [] OTHER -> {}
\* what a lambda has to capture: the identifiers of its body that are neither
\* its parameters nor bound in the body and that resolve to a Variable in the
\* scopes that enclose the lambda (symbolTable without the lambda's own scope)
toCapture(symbolTable, lambdaExpr) ==
  LET enclosing == SubSeq(symbolTable, 1, Len(symbolTable) - 1)
      own == {lambdaExpr.Params[i].Variable : i \in 1..Len(lambdaExpr.Params)}
              \cup letsIn(List(lambdaExpr.Body))
  IN {v \in identifiersIn(List(lambdaExpr.Body)) \ own :
        /\ Resolve(enclosing, v).ok
        /\ Resolve(enclosing, v).symbol.Type = "VariableSymbol"}
\* C27: for every lambda expression of the program, the captured-variable
\* list holds exactly the names the lambda has to capture.
C27_CaptureComplete ==
  status # "compile error" =>
    \A k \in 1..Len(compiled.lambdas) :
      LET l == compiled.lambdas[k]
      IN {l.capturedVariables[i] : i \in 1..Len(l.capturedVariables)}
           = toCapture(l.symbolTable, l.lambdaExpr)

\* the identifiers of a node in the order in which they occur
RECURSIVE occurrences(_)
occurrences(n) ==
  LET RECURSIVE all(_)
      all(nodes) == IF nodes = <<>> THEN <<>>
                    ELSE occurrences(Head(nodes)) \o all(Tail(nodes))
  IN CASE n.k = "Identifier" -> <<n.Value>>
       [] n.k = "List" -> all(n.Items)
       [] n.k = "IfStatement" -> all(<<n.Condition, n.ThenBlock, n.ElseBlock>>)
       [] n.k = "ReturnStatement" -> occurrences(n.ReturnValue)
       [] n.k \in {"LambdaExpression", "FunctionDefinition"} -> all(n.Body)
       [] n.k \in {"LambdaCall", "MapExpression", "FilterExpression"} ->
            occurrences(n.Lambda) \o all(n.Arguments)
       [] OTHER -> <<>>
\* the names of S in the order of their first occurrence in the sequence s
RECURSIVE firstOccurrences(_, _)
firstOccurrences(s, S) ==
  IF s = <<>> THEN <<>>
  ELSE IF Head(s) \in S THEN <<Head(s)>> \o firstOccurrences(Tail(s), S \ {Head(s)})
  ELSE firstOccurrences(Tail(s), S)
\* C28: the captured names of every lambda are listed in the order of their
\* first occurrence in the lambda body, each once, and compiling the program
\* again gives the same byte stream.
C28_CaptureOrder ==
  status # "compile error" =>
    /\ \A k \in 1..Len(compiled.lambdas) :
         LET l == compiled.lambdas[k]
         IN l.capturedVariables =
              firstOccurrences(occurrences(List(l.lambdaExpr.Body)),
                               {l.capturedVariables[i] : i \in 1..Len(l.capturedVariables)})
    /\ \A p \in {1, 2} : CompileASTByte(Programs[prog], p).bytecode = compiled.bytecode

\* the result of the arithmetic or comparison instruction op on a and b
applied(op, a, b) ==
  CASE op = ADD -> NumV(a.num + b.num)
    [] op = SUB -> NumV(a.num - b.num)
    [] op = MUL -> NumV(a.num * b.num)
    [] op = GRT -> BoolV(a.num > b.num)
    [] op = LESS -> BoolV(a.num < b.num)
\* what P_Ops prints: (+ 1 2) (- 5 3) (> 2 1) (< 2 1) (= 1 1) (? 1 2)
\* (= 'x' 'y') true
Ops_Output ==
  <<NumV(3), NumV(2), BoolV(TRUE), BoolV(FALSE), BoolV(TRUE), BoolV(TRUE), BoolV(FALSE),
    BoolV(TRUE)>>
\* C29: a binary arithmetic or comparison instruction that succeeds replaces
\* the two topmost values a (below) and b (on top) by a op b, and the operands
\* of an application (op a b) are pushed in the order written: P_Ops prints
\* 2 for (- 5 3), true for (> 2 1) and false for (< 2 1), and P_Sub 2 for x - y
\* with x = 5 and y = 3.
C29_OperandOrder ==
  /\ [][(Running /\ instruction.Opcode \in {ADD, SUB, MUL, GRT, LESS} /\ status' = "running")
        => /\ Len(stack) >= 2
           /\ stack' = Append(Pop(stack, 2),
                              applied(instruction.Opcode, stack[Len(stack) - 1], Top(stack)))]_vars
  /\ []((Programs[prog] = P_Ops /\ status # "running")
          => (status = "done" /\ out = Ops_Output))
  /\ []((Programs[prog] = P_Sub /\ status # "running")
          => (status = "done" /\ out = <<NumV(2)>>))
\* P_Ops has run to its end and printed the results
C29_Printed == Programs[prog] = P_Ops /\ status = "done" /\ out = Ops_Output

\* C30: an EQ or NEQ that finds two operands succeeds exactly when both are
\* numbers or both are strings; it then replaces them by one bool, true for
\* EQ when they are equal and for NEQ when they are not; for every other
\* pair of variants it aborts with the type error and leaves the stack alone.
C30_Equality ==
  [][(Running /\ instruction.Opcode \in {EQ, NEQ} /\ Len(stack) >= 2) =>
       LET a == stack[Len(stack) - 1]
           b == Top(stack)
       IN IF a.t \in {"float64", "string"} /\ b.t = a.t
          THEN /\ status' = "running"
               /\ stack' = Append(Pop(stack, 2), BoolV((a = b) <=> (instruction.Opcode = EQ)))
          ELSE /\ status' = "error"
               /\ err' \in {"EQ instruction requires operands of the same type",
                             "NEQ instruction requires operands of the same type"}
               /\ stack' = stack]_vars
\* (? true true) has aborted with the type error
C30_BoolBool ==
  /\ Programs[prog] = P_Eq("?", 5, 5)
  /\ status = "error"
  /\ err = "NEQ instruction requires operands of the same type"
  /\ stack = <<BoolV(TRUE), BoolV(TRUE)>>

\* C31: an application of the division operator compiles to DIV, and DIV
\* pops two numbers and pushes their quotient: (print (/ 6 3)) compiles
\* without error into a stream holding a DIV, and the run ends normally
\* having printed 2.
C31_Division ==
  Programs[prog] = P_Div =>
    /\ compiled.err = ""
    /\ \E k \in 1..Len(compiled.emitted) : compiled.bytecode[compiled.emitted[k] + 1] = DIV
    /\ status # "running" => (status = "done" /\ out = <<NumV(2)>>)

\* the filter expression of a program of the shape (print (filter l args))
printsFilter ==
  LET items == Programs[prog].Items
  IN /\ Len(items) = 1
     /\ items[1].k = "List"
     /\ Len(items[1].Items) = 2
     /\ items[1].Items[2].k = "List"
     /\ Len(items[1].Items[2].Items) = 1
     /\ items[1].Items[2].Items[1].k = "FilterExpression"
filterExpr == Programs[prog].Items[1].Items[2].Items[1]
\* the code of each node of a sequence, compiled on its own, in sequence order
RECURSIVE codeOfEach(_, _)
codeOfEach(nodes, p) ==
  IF nodes = <<>> THEN <<>>
  ELSE compileNode(NewCompiler(p), Head(nodes)).bytecode \o codeOfEach(Tail(nodes), p)
scopeChains ==
  {compiled.symbolTable, enterScope(compiled).symbolTable}
    \cup {compiled.lambdas[i].symbolTable : i \in 1..Len(compiled.lambdas)}
\* the scopes of a chain that define a name, the root being scope 1
scopesDefining(st, name) == {i \in 1..Len(st) : name \in DOMAIN st[i]}
\* a chain differs from another at most in its innermost scope, and there
\* at most in the entry of one name
onlyInnermost(st, st2, name) ==
  /\ Len(st2) = Len(st)
  /\ \A i \in 1..(Len(st) - 1) : st2[i] = st[i]
  /\ DOMAIN st2[Len(st)] = DOMAIN st[Len(st)] \cup {name}
  /\ \A other \in DOMAIN st[Len(st)] \ {name} : st2[Len(st)][other] = st[Len(st)][other]
\* C33: Resolve returns the symbol of the innermost scope on the chain that
\* defines the name, and not-found when no scope does; DefineVariable and
\* DefineFunction write into the innermost scope, replace the entry the name
\* had there, and leave every enclosing scope as it was, so that the new
\* entry shadows an outer one.
C33_SymbolTable ==
  \A st \in scopeChains : \A name \in Names :
    LET defining == scopesDefining(st, name)
        r == Resolve(st, name)
        v == DefineVariable(st, name)
        f == DefineFunction(v, name, 7, <<"x">>)
    IN /\ r.ok <=> defining # {}
       /\ r.ok => \E i \in defining : /\ \A j \in defining : j <= i
                                        /\ r.symbol = st[i][name]
       /\ onlyInnermost(st, v, name)
       /\ v[Len(v)][name] = Symbol(name, "VariableSymbol", <<>>, 0)
       /\ Resolve(v, name) = [ok |-> TRUE, symbol |-> v[Len(v)][name]]
       /\ onlyInnermost(st, f, name)
       /\ f[Len(f)][name] = Symbol(name, "FunctionSymbol", <<"x">>, 7)
       /\ Resolve(f, name) = [ok |-> TRUE, symbol |-> f[Len(f)][name]]
\* a lambda body was compiled in a scope whose enclosing scope defines a name
\* that the lambda's scope does not define, and the run has passed its start
C33_Enclosing ==
  /\ pc > 0
  /\ \E i \in 1..Len(compiled.lambdas) :
       LET st == compiled.lambdas[i].symbolTable
       IN /\ Len(st) >= 2
          /\ \E name \in Names : scopesDefining(st, name) = {1}

\* C34: every scope entered while compiling a function definition or a
\* lambda expression is left again: after the compilation of a program that
\* compiles, and of each of its leading parts, the current scope is the
\* global scope, a chain of one table, and no function name is active.
C34_ScopeBalance ==
  \A k \in 1..Len(Programs[prog].Items) :
    LET c == CompileASTByte(List(SubSeq(Programs[prog].Items, 1, k)), perm)
    IN c.err = "" => /\ Len(c.symbolTable) = 1
                     /\ c.currentFunction = ""
\* a program with a lambda expression inside a lambda expression, or with a
\* function definition, has been compiled and run
C34_Compiled ==
  /\ compiled.err = ""
  /\ status # "running"
  /\ \/ \E i \in 1..Len(compiled.lambdas) : Len(compiled.lambdas[i].symbolTable) = 3
     \/ \E name \in Names : /\ name \in DOMAIN compiled.symbolTable[1]
                             /\ compiled.symbolTable[1][name].Type = "FunctionSymbol"
  /\ Len(compiled.symbolTable) = 1
  /\ compiled.currentFunction = ""

\* no Run started by CALL_LAMBDA, MAP or FILTER is active
NoLambdaInvocation == \A i \in 1..Len(runs) : runs[i].kind = "Run"
\* C35: the environment-frame stack is never empty and its bottom entry is
\* the global frame created with the VM; whenever no lambda invocation is in
\* progress its depth is 1 plus the depth of the call stack, and when the
\* program has finished without error with every call returned, only the
\* global frame remains.
C35_FrameStack ==
  /\ Len(symbolTableStack) >= 1
  /\ symbolTableStack[1] = 1
  /\ tables[1].kind = "global"
  /\ (status = "running" /\ NoLambdaInvocation)
       => Len(symbolTableStack) = 1 + Len(callStack)
  /\ (status = "done" /\ callStack = <<>>) => symbolTableStack = <<1>>
\* a function body is being executed two calls deep, outside any lambda
C35_InCall ==
  /\ status = "running"
  /\ NoLambdaInvocation
  /\ Len(callStack) = 2
  /\ Len(symbolTableStack) = 3

\* the parameter names of the function whose activation is the innermost one
activeParams == functions[Top(callStack).funcName].ParamNames
\* PUSH_VARIABLE is about to read a parameter of the innermost activation
ReadsParameter ==
  /\ At(PUSH_VARIABLE)
  /\ callStack # <<>>
  /\ NoLambdaInvocation
  /\ \E i \in 1..Len(activeParams) : activeParams[i] = varNameAt
C37_LowerEntries ==
  [][LambdaReturns =>
       /\ (status' = "running" /\ stack # <<>>) => Len(stack) > Len(Top(runs).below)
       /\ (status' = "running" /\ Len(runs') < Len(runs)) =>
            /\ Len(stack') >= Len(Top(runs).below)
            /\ SubSeq(stack', 1, Len(Top(runs).below)) = Top(runs).below]_vars

\* C38: the offset map of a compiled program has one entry per decoded
\* instruction; it maps the byte offset at which the k-th instruction was
\* emitted to k, counting from 0, so that offset 0 has index 0 and a larger
\* offset a larger index; and it holds both addresses of every CREATE_LAMBDA:
\* the start address translates to the index of the instruction after the
\* JUMP that precedes the body, and the end address to the index of the
\* CREATE_LAMBDA itself.
C38_OffsetMap ==
  status # "compile error" =>
    /\ Cardinality(DOMAIN offsetMap) = Len(code)
    /\ Len(compiled.emitted) = Len(code)
    /\ \A k \in 1..Len(code) : /\ compiled.emitted[k] \in DOMAIN offsetMap
                                /\ offsetMap[compiled.emitted[k]] = k - 1
    /\ code # <<>> => (0 \in DOMAIN offsetMap /\ offsetMap[0] = 0)
    /\ \A a, b \in DOMAIN offsetMap : a < b => offsetMap[a] < offsetMap[b]
    /\ \A c \in 0..(Len(code) - 1) :
         code[c + 1].Opcode = CREATE_LAMBDA =>
           LET startAddress == Uint32(code[c + 1].Operands[1])
               endAddress == Uint32(code[c + 1].Operands[2])
           IN /\ startAddress \in DOMAIN offsetMap
              /\ endAddress \in DOMAIN offsetMap
              /\ offsetMap[endAddress] = c
              /\ offsetMap[startAddress] >= 1
              /\ offsetMap[startAddress] <= c
              /\ code[offsetMap[startAddress]].Opcode = JUMP
\* the VM is at a CREATE_LAMBDA that is not the second instruction of the
\* program, and both of its addresses are offsets of the map
C38_AtCreateLambda ==
  /\ At(CREATE_LAMBDA)
  /\ pc > 4
  /\ Uint32(instruction.Operands[1]) \in DOMAIN offsetMap
  /\ offsetMap[Uint32(instruction.Operands[1])] > 1
  /\ Uint32(instruction.Operands[2]) \in DOMAIN offsetMap
  /\ offsetMap[Uint32(instruction.Operands[2])] = pc

\* the opcodes that enter or leave a function or a lambda body
Transfers == {CALL_FUNCTION, RETURN, CALL_LAMBDA, MAP, FILTER}
\* the program has none of them
TransferFree == \A i \in 1..Len(code) : code[i].Opcode \notin Transfers
\* C39: an executed instruction other than CALL_FUNCTION, RETURN,
\* CALL_LAMBDA, MAP and FILTER either ends the run with an error or leaves
\* the program counter larger than it was, JUMP, IF, ELSE and ENDIF
\* included.  A program without these five opcodes therefore executes every
\* instruction at most once, at a program counter below the number of its
\* instructions, and its run ends, normally or with an error.
C39_ForwardProgress ==
  /\ [][(Running /\ instruction.Opcode \notin Transfers /\ status' = "running")
          => pc' > pc]_vars
  /\ []((TransferFree /\ status = "running") => pc \in 0..Len(code))
  /\ [](TransferFree => <>(status # "running"))
\* a program without calls and lambda invocations is at an ELSE, which
\* continues after an ENDIF further on
C39_AtElse ==
  /\ TransferFree
  /\ At(OP_ELSE)
  /\ jumpToOpcode(ENDIF) > pc

====
